---- MODULE Spec2Model ----
(***************************************************************************)
(* RotHex: hexagonal tile-rotation puzzle.  Model of the puzzle core       *)
(* (coords, grid, operators, state, move) and of the startup scramble.     *)
(***************************************************************************)
EXTENDS Integers, Sequences, FiniteSets, TLC

VARIABLES
  startup,                   \* the requested grid shape and the startup error, if any
  derive,                    \* derive_grid_shape: its options, loop position and best_match
  grid,                      \* the Grid built at startup
  instances_by_operator_id,  \* operator id -> list of AnchorInstance
  board_state,               \* the BoardState, mutated in place by apply_move
  scramble_index,            \* iterations of the scramble loop done so far
  play_moves,                \* moves requested by the player after the scramble
  phase,                     \* "scramble", "replay", "repeat" or "failed"
  move_log,                  \* history: the moves applied and not yet undone
  prev_state,                \* history: board_state before the last apply_move
  last_call,                 \* history: arguments and outcome of the last apply_move
  replay_target,             \* history: the state the last undone move started from
  repeat_count,              \* history: consecutive applications of one move
  repeat_base,               \* history: board_state before the first of them
  ui,                        \* the input controller, the UI lock and the running move
  walk                       \* a cell, and the neighbor_cell call that led to it

vars == <<startup, derive, grid, instances_by_operator_id, board_state, scramble_index,
          play_moves, phase,
          move_log, prev_state, last_call, replay_target, repeat_count,
          repeat_base, ui, walk>>

(***************************************************************************)
(* Bounds of the model.                                                    *)
(***************************************************************************)
MaxGridW == 2
MaxGridH == 3
\* Iterations of the scramble loop explored (stands for SCRAMBLE_MOVES).
MaxScramble == 3
\* Scramble moves before a move is repeated, and before a desynchronised call.
MaxRepeatScramble == 1
\* Consecutive applications of one move explored.
MaxRepeat == 6
MaxDesyncMoves == 2
\* Moves the player requests after the scramble.
MaxPlayMoves == 4
\* Grid shapes requested in the step-by-step startup.
\* Inputs of derive_grid_shape: target_cell_count ranges over
\* DEFAULT_TARGET_CELL_COUNT - TargetSpread .. DEFAULT_TARGET_CELL_COUNT + TargetSpread,
\* image_aspect over the fractions p / q with p, q in 1..MaxAspectTerm, and
\* padding_in_tile_units over 0, 1/2, ..., MaxPaddingHalves / 2.
TargetSpread == 2
MaxAspectTerm == 3
MaxPaddingHalves == 1

\* Caller-supplied candidate_h_min and candidate_h_max range over 1..MaxCandidateH.
MaxCandidateH == 6

\* Inputs of derive_tile_size: viewport sides range over 0..MaxViewportPx,
\* image sides over 1..MaxImagePx, the viewport margin over 0..MaxMarginPx.
MaxViewportPx == 8
MaxImagePx == 3
MaxMarginPx == 1

\* UI events: at most MaxUiMoves moves are started, the pointer is away from
\* every pivot (0) or nearest to the pivot 1..MaxPointer of the active list,
\* and pointer buttons range over 0..MaxButton.
MaxUiMoves == 2
MaxNotifyMoves == 3
MaxPointer == 2
MaxButton == 3

\* neighbor_cell is applied to cells with q and r in -MaxCoord..MaxCoord and
\* direction indices in -MaxDirection..MaxDirection.
MaxCoord == 3
MaxDirection == 8

\* Board geometry: tile_size_px ranges over 1..MaxTileSizePx and each
\* coordinate of board_origin over -MaxOriginPx, 0, MaxOriginPx.
MaxTileSizePx == 3
MaxOriginPx == 8
MaxPendingCallbacks == 2

MaxShapeW == 7
MaxShapeH == 5

(***************************************************************************)
(* JavaScript primitives.                                                  *)
(***************************************************************************)
\* JS remainder: the result takes the sign of the dividend.
JsRem(value, modulus) ==
  IF value >= 0 THEN value % modulus ELSE 0 - ((0 - value) % modulus)

\* Map.get(key) ?? fallback
MapGetOr(map, key, fallback) ==
  IF key \in DOMAIN map THEN map[key] ELSE fallback

\* Map.set(key, value): adds the key when absent.
MapSet(map, key, value) ==
  [k \in (DOMAIN map) \cup {key} |-> IF k = key THEN value ELSE map[k]]

\* The value of Map.get on an absent key.
Undefined == "<undefined>"

\* !tile_id for a value that is a string or undefined.
IsFalsy(value) == value = Undefined \/ value = ""

Range(seq) == {seq[i] : i \in 1..Len(seq)}

\* [...new Set(list)]: first occurrences, in insertion order.
RECURSIVE UniqueInOrder(_)
UniqueInOrder(list) ==
  IF list = <<>> THEN <<>>
  ELSE LET head_part == UniqueInOrder(SubSeq(list, 1, Len(list) - 1))
           last_item == list[Len(list)]
       IN IF last_item \in Range(head_part) THEN head_part
          ELSE Append(head_part, last_item)

(***************************************************************************)
(* coords.js                                                               *)
(***************************************************************************)
cell_key(cell) == ToString(cell.q) \o "," \o ToString(cell.r)

even_row_offsets ==
  << [q |-> 1, r |-> 0], [q |-> 1, r |-> -1], [q |-> 0, r |-> -1],
     [q |-> -1, r |-> 0], [q |-> 0, r |-> 1], [q |-> 1, r |-> 1] >>

odd_row_offsets ==
  << [q |-> 1, r |-> 0], [q |-> 0, r |-> -1], [q |-> -1, r |-> -1],
     [q |-> -1, r |-> 0], [q |-> -1, r |-> 1], [q |-> 0, r |-> 1] >>

\* Variant: the offsets of even rows are used for every row.
neighbor_cell_ignoring_parity(cell, direction_index) ==
  LET normalized_index == JsRem(JsRem(direction_index, 6) + 6, 6)
      direction_offset == even_row_offsets[normalized_index + 1]
  IN [q |-> cell.q + direction_offset.q, r |-> cell.r + direction_offset.r]

neighbor_cell(cell, direction_index) ==
  LET normalized_index == JsRem(JsRem(direction_index, 6) + 6, 6)
      is_even_row == JsRem(cell.r, 2) = 0
      direction_offset == IF is_even_row
                          THEN even_row_offsets[normalized_index + 1]
                          ELSE odd_row_offsets[normalized_index + 1]
  IN [q |-> cell.q + direction_offset.q, r |-> cell.r + direction_offset.r]

\* Variant: odd rows are shifted right instead of even rows.
world_from_cell_units_odd_shifted(cell) ==
  [x |-> 2 * cell.q + (IF JsRem(cell.r, 2) = 0 THEN 0 ELSE 1), y |-> cell.r]

\* world_from_cell in layout units: x in half hex widths (hex_width / 2 =
\* sqrt(3) * tile_size_px / 2) and y in row steps (1.5 * tile_size_px), from
\* the board origin.  Even rows are shifted right by half a hex width.
world_from_cell_units(cell) ==
  [x |-> 2 * cell.q + (IF JsRem(cell.r, 2) = 0 THEN 1 ELSE 0), y |-> cell.r]

\* Squared distance of two cell centers is (3*dx^2 + 9*dy^2) / 4 tile sizes
\* squared; it equals one hex width squared (3) exactly when dx^2 + 3*dy^2 = 4.
CentersOneHexWidthApart(cell_a, cell_b) ==
  LET dx == world_from_cell_units(cell_a).x - world_from_cell_units(cell_b).x
      dy == world_from_cell_units(cell_a).y - world_from_cell_units(cell_b).y
  IN dx * dx + 3 * dy * dy = 4

(***************************************************************************)
(* grid.js                                                                 *)
(***************************************************************************)
InvalidGridShape == "GRID_H must be odd."

\* Variant: the longer rows are the even ones.
RowCellsEvenLonger(grid_w, row_index) ==
  LET row_length == IF JsRem(row_index, 2) = 0 THEN grid_w + 1 ELSE grid_w
  IN [column_index \in 1..row_length |-> [q |-> column_index - 1, r |-> row_index]]

RowCells(grid_w, row_index) ==
  LET row_length == IF JsRem(row_index, 2) = 0 THEN grid_w ELSE grid_w + 1
  IN [column_index \in 1..row_length |-> [q |-> column_index - 1, r |-> row_index]]

RECURSIVE RowsUpTo(_, _)
RowsUpTo(grid_w, row_count) ==
  IF row_count <= 0 THEN <<>>
  ELSE RowsUpTo(grid_w, row_count - 1) \o RowCells(grid_w, row_count - 1)

\* Variant: the parity of the height is not checked.
create_grid_unchecked(grid_w, grid_h) ==
  LET all_cells == RowsUpTo(grid_w, grid_h)
  IN [w |-> grid_w, h |-> grid_h, all_cells |-> all_cells,
      playable_cells |-> {cell_key(all_cells[i]) : i \in 1..Len(all_cells)}]

create_grid(grid_w, grid_h) ==
  IF JsRem(grid_h, 2) = 0
  THEN [error |-> InvalidGridShape]
  ELSE LET all_cells == RowsUpTo(grid_w, grid_h)
       IN [w |-> grid_w, h |-> grid_h, all_cells |-> all_cells,
           playable_cells |-> {cell_key(all_cells[i]) : i \in 1..Len(all_cells)}]

has_cell(g, cell) == cell_key(cell) \in g.playable_cells

(***************************************************************************)
(* operators.js                                                            *)
(***************************************************************************)
collect_direction_cells(cell, direction_indices) ==
  [i \in 1..Len(direction_indices) |-> neighbor_cell(cell, direction_indices[i])]

\* Variant: one existing cell is enough.
some_cell_exists(g, cells) ==
  \E i \in 1..Len(cells) : has_cell(g, cells[i])

all_cells_exist(g, cells) ==
  \A i \in 1..Len(cells) : has_cell(g, cells[i])

get_operator_defs ==
  << [id |-> "ring6_60", rotation_steps_cw |-> 1],
     [id |-> "alt3_even_120", rotation_steps_cw |-> 2],
     [id |-> "alt3_odd_120", rotation_steps_cw |-> 2],
     [id |-> "vertex3_120", rotation_steps_cw |-> 2] >>

OperatorIds == {get_operator_defs[i].id : i \in 1..Len(get_operator_defs)}

\* Variant: the anchor id carries no operator suffix.
CellOperatorInstancePlainId(anchor_cell, operator_id, target_cells, rotation_steps_cw) ==
  [operator_id |-> operator_id,
   anchor_id |-> "cell:" \o cell_key(anchor_cell),
   cells |-> [i \in 1..Len(target_cells) |-> cell_key(target_cells[i])],
   spin_cells |-> << cell_key(anchor_cell) >>,
   rotation_steps_cw |-> rotation_steps_cw]

CellOperatorInstance(anchor_cell, operator_id, target_cells, rotation_steps_cw) ==
  LET anchor_suffix == IF operator_id = "alt3_even_120" THEN ":even"
                       ELSE IF operator_id = "alt3_odd_120" THEN ":odd"
                       ELSE ""
  IN [operator_id |-> operator_id,
      anchor_id |-> "cell:" \o cell_key(anchor_cell) \o anchor_suffix,
      cells |-> [i \in 1..Len(target_cells) |-> cell_key(target_cells[i])],
      spin_cells |-> << cell_key(anchor_cell) >>,
      rotation_steps_cw |-> rotation_steps_cw]

\* The loop over grid.all_cells keeps, in order, the anchor cells whose
\* required neighbors all exist, and pushes one instance for each.
build_cell_operator_instances(g, operator_id, direction_indices, rotation_steps_cw) ==
  LET kept_anchor_cells ==
        SelectSeq(g.all_cells,
                  LAMBDA anchor_cell :
                    all_cells_exist(g, collect_direction_cells(anchor_cell,
                                                               direction_indices)))
  IN [i \in 1..Len(kept_anchor_cells) |->
        CellOperatorInstance(kept_anchor_cells[i], operator_id,
                             collect_direction_cells(kept_anchor_cells[i],
                                                     direction_indices),
                             rotation_steps_cw)]

\* UTF-16 code units of the decimal text of a number and of a cell key;
\* Array.prototype.sort() without a comparator orders strings by them.
RECURSIVE DigitCodes(_)
DigitCodes(n) ==
  IF n < 10 THEN << 48 + n >> ELSE Append(DigitCodes(n \div 10), 48 + (n % 10))

NumberCodes(n) == IF n < 0 THEN << 45 >> \o DigitCodes(0 - n) ELSE DigitCodes(n)

CellKeyCodes(cell) == NumberCodes(cell.q) \o << 44 >> \o NumberCodes(cell.r)

RECURSIVE CodesLess(_, _)
CodesLess(left, right) ==
  IF right = <<>> THEN FALSE
  ELSE IF left = <<>> THEN TRUE
  ELSE IF Head(left) # Head(right) THEN Head(left) < Head(right)
  ELSE CodesLess(Tail(left), Tail(right))

\* [...cell_keys].sort(): stable insertion of each cell by its key text.
RECURSIVE SortCellsByKey(_)
SortCellsByKey(cells) ==
  IF cells = <<>> THEN <<>>
  ELSE LET sorted_front == SortCellsByKey(SubSeq(cells, 1, Len(cells) - 1))
           item == cells[Len(cells)]
           not_after == SelectSeq(sorted_front,
                          LAMBDA c : ~CodesLess(CellKeyCodes(item), CellKeyCodes(c)))
           after == SelectSeq(sorted_front,
                          LAMBDA c : CodesLess(CellKeyCodes(item), CellKeyCodes(c)))
       IN not_after \o << item >> \o after

RECURSIVE JoinKeys(_, _)
JoinKeys(keys, separator) ==
  IF keys = <<>> THEN ""
  ELSE IF Len(keys) = 1 THEN keys[1]
  ELSE keys[1] \o separator \o JoinKeys(Tail(keys), separator)

\* Variant: the keys are joined in discovery order, without sorting.
VertexAnchorIdUnsorted(cell_a, cell_b, cell_d) ==
  "vtx:" \o JoinKeys(<< cell_key(cell_a), cell_key(cell_b), cell_key(cell_d) >>, "|")

VertexAnchorId(cell_a, cell_b, cell_d) ==
  LET sorted_cells == SortCellsByKey(<< cell_a, cell_b, cell_d >>)
      sorted_cell_keys == [i \in 1..3 |-> cell_key(sorted_cells[i])]
  IN "vtx:" \o JoinKeys(sorted_cell_keys, "|")

\* The (anchor cell, direction_index) pair visited by the nested loops of
\* build_vertex_instances at step k = 1..6*Len(all_cells), with its triple.
\* Variant: the third cell is the neighbor in the previous direction.
VertexCandidatePreviousDirection(g, step) ==
  LET anchor_cell == g.all_cells[((step - 1) \div 6) + 1]
      direction_index == (step - 1) % 6
      cell_a == anchor_cell
      cell_b == neighbor_cell(anchor_cell, direction_index)
      cell_d == neighbor_cell(anchor_cell, (direction_index + 5) % 6)
  IN [exists |-> all_cells_exist(g, << cell_a, cell_b, cell_d >>),
      cell_keys |-> << cell_key(cell_a), cell_key(cell_b), cell_key(cell_d) >>,
      anchor_id |-> VertexAnchorId(cell_a, cell_b, cell_d)]

VertexCandidate(g, step) ==
  LET anchor_cell == g.all_cells[((step - 1) \div 6) + 1]
      direction_index == (step - 1) % 6
      cell_a == anchor_cell
      cell_b == neighbor_cell(anchor_cell, direction_index)
      cell_d == neighbor_cell(anchor_cell, (direction_index + 1) % 6)
  IN [exists |-> all_cells_exist(g, << cell_a, cell_b, cell_d >>),
      cell_keys |-> << cell_key(cell_a), cell_key(cell_b), cell_key(cell_d) >>,
      anchor_id |-> VertexAnchorId(cell_a, cell_b, cell_d)]

\* A candidate is pushed when its cells exist and its anchor_id is not yet in
\* dedup_anchor_ids, i.e. no earlier existing candidate has the same id.
build_vertex_instances(g) ==
  LET step_count == 6 * Len(g.all_cells)
      candidates == [step \in 1..step_count |-> VertexCandidate(g, step)]
      pushed(step) ==
        /\ candidates[step].exists
        /\ \A earlier \in 1..(step - 1) :
             candidates[earlier].exists
               => candidates[earlier].anchor_id # candidates[step].anchor_id
      pushed_steps == SelectSeq([step \in 1..step_count |-> step], pushed)
  IN [i \in 1..Len(pushed_steps) |->
        [operator_id |-> "vertex3_120",
         anchor_id |-> candidates[pushed_steps[i]].anchor_id,
         cells |-> candidates[pushed_steps[i]].cell_keys,
         spin_cells |-> <<>>,
         rotation_steps_cw |-> 2]]

UnknownOperatorId == "Unknown operator id"

build_anchor_instances(g, operator_id) ==
  IF operator_id = "ring6_60"
  THEN build_cell_operator_instances(g, operator_id, << 0, 1, 2, 3, 4, 5 >>, 1)
  ELSE IF operator_id = "alt3_even_120"
  THEN build_cell_operator_instances(g, operator_id, << 0, 2, 4 >>, 2)
  ELSE IF operator_id = "alt3_odd_120"
  THEN build_cell_operator_instances(g, operator_id, << 1, 3, 5 >>, 2)
  ELSE IF operator_id = "vertex3_120"
  THEN build_vertex_instances(g)
  ELSE [error |-> UnknownOperatorId]

(***************************************************************************)
(* derive_params.js                                                        *)
(***************************************************************************)
\* get_cell_count_for_shape(grid_w, grid_h) = grid_w * grid_h + (grid_h - 1) / 2
\* is a half-integer for even grid_h; the model carries twice its value.
get_cell_count_for_shape_x2(grid_w, grid_h) == 2 * grid_w * grid_h + (grid_h - 1)

\* Ratios (aspects) and widths in tile units are carried in millionths,
\* rounded down; heights and paddings in tile units are carried in halves,
\* which is exact for them.
Micro == 1000000

\* Math.sqrt(3) in millionths.
Sqrt3Micro == 1732051

Abs(x) == IF x < 0 THEN -x ELSE x

\* sqrt(3) * (grid_w + 1) + 2 * padding, in millionths.
get_padded_width_in_s(grid_w, padding_halves) ==
  Sqrt3Micro * (grid_w + 1) + padding_halves * Micro

\* 1.5 * grid_h + 0.5 + 2 * padding, in halves.
get_padded_height_in_s(grid_h, padding_halves) ==
  3 * grid_h + 1 + 2 * padding_halves

\* padded width / padded height, in millionths.
get_board_aspect(grid_w, grid_h, padding_halves) ==
  (2 * get_padded_width_in_s(grid_w, padding_halves))
    \div get_padded_height_in_s(grid_h, padding_halves)

\* options.candidate_h_min ?? 3, options.candidate_h_max ?? 35.
DefaultCandidateHMin == 3
DefaultCandidateHMax == 35
Nullish(options, field, default) ==
  IF field \in DOMAIN options THEN options[field] ELSE default

\* Upper end of the grid_w loop.
CandidateWMax == 50

\* let best_match = null
NoMatch ==
  [grid_w |-> 0, grid_h |-> 0, cell_count |-> 0, board_aspect |-> 0,
   cell_delta |-> 0, aspect_delta |-> 0]

\* The candidate record of one loop iteration; cell_count and cell_delta
\* hold twice their value.
Candidate(options, grid_w, grid_h) ==
  LET cell_count == get_cell_count_for_shape_x2(grid_w, grid_h)
      board_aspect == get_board_aspect(grid_w, grid_h, options.padding_in_tile_units)
  IN [grid_w |-> grid_w,
      grid_h |-> grid_h,
      cell_count |-> cell_count,
      board_aspect |-> board_aspect,
      cell_delta |-> Abs(cell_count - 2 * options.target_cell_count),
      aspect_delta |-> Abs(board_aspect - options.image_aspect)]

\* Variant: the aspect tie-break is dropped.
is_better_cell_delta_only(candidate, best_match) ==
  candidate.cell_delta < best_match.cell_delta

is_better(candidate, best_match) ==
  \/ candidate.cell_delta < best_match.cell_delta
  \/ /\ candidate.cell_delta = best_match.cell_delta
     /\ candidate.aspect_delta < best_match.aspect_delta

\* Entry of derive_grid_shape(options): the loop variables before the first
\* test of the outer loop.
DeriveEntry(options) ==
  [pc |-> "loop",
   options |-> options,
   candidate_h_max |-> Nullish(options, "candidate_h_max", DefaultCandidateHMax),
   grid_h |-> Nullish(options, "candidate_h_min", DefaultCandidateHMin),
   grid_w |-> 1,
   best_match |-> NoMatch]

\* One iteration of the inner loop body, then the loop increments.
DeriveCandidate ==
  /\ derive.pc = "loop"
  /\ derive.grid_h <= derive.candidate_h_max
  /\ LET candidate == Candidate(derive.options, derive.grid_w, derive.grid_h)
         take == \/ derive.best_match = NoMatch
                 \/ is_better(candidate, derive.best_match)
         last_w == derive.grid_w + 1 > CandidateWMax
     IN derive' = [derive EXCEPT
                     !.best_match = IF take THEN candidate ELSE @,
                     !.grid_w = IF last_w THEN 1 ELSE @ + 1,
                     !.grid_h = IF last_w THEN @ + 2 ELSE @]
  /\ UNCHANGED <<walk, ui, startup, grid, instances_by_operator_id, board_state,
                  scramble_index, play_moves, phase, move_log, prev_state,
                  last_call, replay_target, repeat_count, repeat_base >>

\* The outer loop ends: throw without a match, else return the best match.
DeriveReturn ==
  /\ derive.pc = "loop"
  /\ derive.grid_h > derive.candidate_h_max
  /\ derive' =
       IF derive.best_match = NoMatch
       THEN [pc |-> "failed", options |-> derive.options,
             error |-> "Could not derive grid dimensions."]
       ELSE [pc |-> "done", options |-> derive.options,
             result |-> [grid_w |-> derive.best_match.grid_w,
                         grid_h |-> derive.best_match.grid_h,
                         cell_count |-> derive.best_match.cell_count,
                         board_aspect |-> derive.best_match.board_aspect]]
  /\ UNCHANGED <<walk, ui, startup, grid, instances_by_operator_id, board_state,
                  scramble_index, play_moves, phase, move_log, prev_state,
                  last_call, replay_target, repeat_count, repeat_base >>

\* derive_tile_size and get_contain_rect divide pixel sizes; the model
\* carries such numbers as exact fractions num / den with den > 0, and
\* compares them by their continued-fraction expansions, which needs no
\* product of numerators and denominators.
Frac(num, den) == [num |-> num, den |-> den]

RECURSIVE FracLess(_, _)
FracLess(a, b) ==
  LET whole_a == a.num \div a.den
      whole_b == b.num \div b.den
      rest_a == a.num % a.den
      rest_b == b.num % b.den
  IN IF whole_a # whole_b THEN whole_a < whole_b
     ELSE IF rest_b = 0 THEN FALSE
     ELSE IF rest_a = 0 THEN TRUE
     ELSE FracLess(Frac(b.den, rest_b), Frac(a.den, rest_a))

FracLeq(a, b) == ~FracLess(b, a)

\* Math.min, Math.max (the first argument on a tie).
FracMin(a, b) == IF FracLess(b, a) THEN b ELSE a
FracMax(a, b) == IF FracLess(a, b) THEN b ELSE a

\* a / b for b > 0.
FracDiv(a, b) == Frac(a.num * b.den, a.den * b.num)

\* get_contain_rect for whole source and target sizes.
get_contain_rect(source_width, source_height, target_width, target_height) ==
  LET scale == FracMin(Frac(target_width, source_width),
                       Frac(target_height, source_height))
      fit_width == Frac(source_width * scale.num, scale.den)
      fit_height == Frac(source_height * scale.num, scale.den)
  IN [x |-> Frac(target_width * fit_width.den - fit_width.num, 2 * fit_width.den),
      y |-> Frac(target_height * fit_height.den - fit_height.num, 2 * fit_height.den),
      width |-> fit_width,
      height |-> fit_height]

\* The padded board sizes as fractions of a tile unit.
PaddedWidth(grid_w, padding_halves) ==
  Frac(get_padded_width_in_s(grid_w, padding_halves), Micro)
PaddedHeight(grid_h, padding_halves) ==
  Frac(get_padded_height_in_s(grid_h, padding_halves), 2)

MaxInt(a, b) == IF a < b THEN b ELSE a

\* Variant: the result is not clamped to 1.
derive_tile_size_unclamped(options) ==
  LET usable_viewport_width ==
        MaxInt(1, options.viewport_width - 2 * options.viewport_margin_px)
      usable_viewport_height ==
        MaxInt(1, options.viewport_height - 2 * options.viewport_margin_px)
      image_rect_unoffset ==
        get_contain_rect(options.image_width, options.image_height,
                         usable_viewport_width, usable_viewport_height)
      padded_width_in_s == PaddedWidth(options.grid_w, options.padding_in_tile_units)
      padded_height_in_s == PaddedHeight(options.grid_h, options.padding_in_tile_units)
      tile_size_from_viewport ==
        FracMin(FracDiv(Frac(usable_viewport_width, 1), padded_width_in_s),
                FracDiv(Frac(usable_viewport_height, 1), padded_height_in_s))
      tile_size_from_image ==
        FracMin(FracDiv(image_rect_unoffset.width, padded_width_in_s),
                FracDiv(image_rect_unoffset.height, padded_height_in_s))
  IN [tile_size_px |-> FracMin(tile_size_from_viewport, tile_size_from_image),
      image_rect |->
        [x |-> Frac(image_rect_unoffset.x.num
                      + options.viewport_margin_px * image_rect_unoffset.x.den,
                    image_rect_unoffset.x.den),
         y |-> Frac(image_rect_unoffset.y.num
                      + options.viewport_margin_px * image_rect_unoffset.y.den,
                    image_rect_unoffset.y.den),
         width |-> image_rect_unoffset.width,
         height |-> image_rect_unoffset.height]]

derive_tile_size(options) ==
  LET usable_viewport_width ==
        MaxInt(1, options.viewport_width - 2 * options.viewport_margin_px)
      usable_viewport_height ==
        MaxInt(1, options.viewport_height - 2 * options.viewport_margin_px)
      image_rect_unoffset ==
        get_contain_rect(options.image_width, options.image_height,
                         usable_viewport_width, usable_viewport_height)
      padded_width_in_s == PaddedWidth(options.grid_w, options.padding_in_tile_units)
      padded_height_in_s == PaddedHeight(options.grid_h, options.padding_in_tile_units)
      tile_size_from_viewport ==
        FracMin(FracDiv(Frac(usable_viewport_width, 1), padded_width_in_s),
                FracDiv(Frac(usable_viewport_height, 1), padded_height_in_s))
      tile_size_from_image ==
        FracMin(FracDiv(image_rect_unoffset.width, padded_width_in_s),
                FracDiv(image_rect_unoffset.height, padded_height_in_s))
  IN [tile_size_px |->
        FracMax(Frac(1, 1), FracMin(tile_size_from_viewport, tile_size_from_image)),
      image_rect |->
        [x |-> Frac(image_rect_unoffset.x.num
                      + options.viewport_margin_px * image_rect_unoffset.x.den,
                    image_rect_unoffset.x.den),
         y |-> Frac(image_rect_unoffset.y.num
                      + options.viewport_margin_px * image_rect_unoffset.y.den,
                    image_rect_unoffset.y.den),
         width |-> image_rect_unoffset.width,
         height |-> image_rect_unoffset.height]]

\* tile_derivation = derive_tile_size(options)
DeriveTileSize ==
  /\ derive.pc = "tile_size_call"
  /\ derive' = [pc |-> "tile_size_done", options |-> derive.options,
                result |-> derive_tile_size(derive.options)]
  /\ UNCHANGED <<walk, ui, startup, grid, instances_by_operator_id, board_state,
                  scramble_index, play_moves, phase, move_log, prev_state,
                  last_call, replay_target, repeat_count, repeat_base >>

(***************************************************************************)
(* Geometry: world_from_cell, create_hex_points and the anchor_world of    *)
(* the instances.  World coordinates are carried in millionths of a pixel. *)
(***************************************************************************)
world_from_cell(cell, tile_size_px, board_origin) ==
  LET units == world_from_cell_units(cell)
  IN [x |-> Micro * board_origin.x + (Sqrt3Micro * tile_size_px * units.x) \div 2,
      y |-> Micro * board_origin.y + (3 * Micro * tile_size_px * units.y) \div 2]

\* main.js: get_cell_world = (cell) => world_from_cell(cell, tile_size_px, board_origin)
get_cell_world(geometry, cell) ==
  world_from_cell(cell, geometry.tile_size_px, geometry.board_origin)

\* The six corner offsets, at 30, 90, ..., 330 degrees.
create_hex_points(tile_size_px) ==
  LET half_width == (Sqrt3Micro * tile_size_px) \div 2
      half_size == (Micro * tile_size_px) \div 2
  IN << [x |-> half_width, y |-> half_size],
        [x |-> 0, y |-> Micro * tile_size_px],
        [x |-> 0 - half_width, y |-> half_size],
        [x |-> 0 - half_width, y |-> 0 - half_size],
        [x |-> 0, y |-> 0 - Micro * tile_size_px],
        [x |-> half_width, y |-> 0 - half_size] >>

get_cell_corners(geometry, cell) ==
  LET center_point == get_cell_world(geometry, cell)
      corner_offsets == create_hex_points(geometry.tile_size_px)
  IN [i \in 1..6 |-> [x |-> center_point.x + corner_offsets[i].x,
                      y |-> center_point.y + corner_offsets[i].y]]

\* Math.hypot of two points, squared, in thousandths of a pixel.
DistanceSquared(point_a, point_b) ==
  LET dx == (point_a.x - point_b.x) \div 1000
      dy == (point_a.y - point_b.y) \div 1000
  IN dx * dx + dy * dy

\* The first corner triple, in loop order, with the least score (the largest
\* of the three corner distances); its centroid is the anchor position.
get_shared_vertex_world(geometry, cell_a, cell_b, cell_d) ==
  LET corners_a == get_cell_corners(geometry, cell_a)
      corners_b == get_cell_corners(geometry, cell_b)
      corners_d == get_cell_corners(geometry, cell_d)
      Score(t) ==
        LET ab == DistanceSquared(corners_a[t[1]], corners_b[t[2]])
            ad == DistanceSquared(corners_a[t[1]], corners_d[t[3]])
            bd == DistanceSquared(corners_b[t[2]], corners_d[t[3]])
        IN MaxInt(ab, MaxInt(ad, bd))
      triples == (1..6) \X (1..6) \X (1..6)
      scores == [t \in triples |-> Score(t)]
      Order(t) == 36 * t[1] + 6 * t[2] + t[3]
      score_values == {scores[t] : t \in triples}
      best_score == CHOOSE score \in score_values :
                      \A other \in score_values : score <= other
      first_matches == {t \in triples : scores[t] = best_score}
      best == CHOOSE t \in first_matches :
                \A other \in first_matches : Order(t) <= Order(other)
  IN [x |-> (corners_a[best[1]].x + corners_b[best[2]].x + corners_d[best[3]].x) \div 3,
      y |-> (corners_a[best[1]].y + corners_b[best[2]].y + corners_d[best[3]].y) \div 3]

\* parse_cell_key for the keys of the grid.
parse_cell_key(g, key) ==
  LET index == CHOOSE i \in 1..Len(g.all_cells) : cell_key(g.all_cells[i]) = key
  IN g.all_cells[index]

\* anchor_world of an instance: get_cell_world(anchor_cell) for the
\* cell-anchored operators, the shared vertex for vertex3_120.
AnchorWorld(g, geometry, anchor_instance) ==
  IF anchor_instance.operator_id = "vertex3_120"
  THEN get_shared_vertex_world(geometry,
                               parse_cell_key(g, anchor_instance.cells[1]),
                               parse_cell_key(g, anchor_instance.cells[2]),
                               parse_cell_key(g, anchor_instance.cells[3]))
  ELSE get_cell_world(geometry, parse_cell_key(g, anchor_instance.spin_cells[1]))

WithAnchorWorld(g, geometry, anchor_instance) ==
  [operator_id |-> anchor_instance.operator_id,
   anchor_id |-> anchor_instance.anchor_id,
   anchor_world |-> AnchorWorld(g, geometry, anchor_instance),
   cells |-> anchor_instance.cells,
   spin_cells |-> anchor_instance.spin_cells,
   rotation_steps_cw |-> anchor_instance.rotation_steps_cw]

\* Variant: instances whose anchor lies left of or above the canvas are not built.
build_anchor_instances_on_canvas(g, operator_id, geometry) ==
  LET instances == build_anchor_instances(g, operator_id)
      OnCanvas(anchor_instance) ==
        /\ AnchorWorld(g, geometry, anchor_instance).x >= 0
        /\ AnchorWorld(g, geometry, anchor_instance).y >= 0
      kept == SelectSeq(instances, OnCanvas)
  IN [i \in 1..Len(kept) |-> WithAnchorWorld(g, geometry, kept[i])]

\* build_anchor_instances(grid, operator_id, get_cell_world, tile_size_px)
\* with the anchor_world of every instance.
build_anchor_instances_at(g, operator_id, geometry) ==
  LET instances == build_anchor_instances(g, operator_id)
  IN [i \in 1..Len(instances) |-> WithAnchorWorld(g, geometry, instances[i])]

\* An instance without its anchor_world.
Topology(anchor_instance) ==
  [operator_id |-> anchor_instance.operator_id,
   anchor_id |-> anchor_instance.anchor_id,
   cells |-> anchor_instance.cells,
   spin_cells |-> anchor_instance.spin_cells,
   rotation_steps_cw |-> anchor_instance.rotation_steps_cw]

TopologyList(instances) == [i \in 1..Len(instances) |-> Topology(instances[i])]

(***************************************************************************)
(* state.js                                                                *)
(***************************************************************************)
\* Variant: tiles start one step turned.
create_solved_state_turned(g) ==
  LET keys == {cell_key(g.all_cells[i]) : i \in 1..Len(g.all_cells)}
  IN [cell_to_tile_id |-> [key \in keys |-> key],
      tile_id_to_cell |-> [tile_id \in keys |-> tile_id],
      tile_rot |-> [tile_id \in keys |-> 1],
      tile_home_cell |-> [tile_id \in keys |-> tile_id]]

create_solved_state(g) ==
  LET keys == {cell_key(g.all_cells[i]) : i \in 1..Len(g.all_cells)}
  IN [cell_to_tile_id |-> [key \in keys |-> key],
      tile_id_to_cell |-> [tile_id \in keys |-> tile_id],
      tile_rot |-> [tile_id \in keys |-> 0],
      tile_home_cell |-> [tile_id \in keys |-> tile_id]]

\* Variant: the rotation is not looked at.
is_solved_positions_only(state) ==
  \A tile_id \in DOMAIN state.tile_home_cell :
    LET home_cell_key == state.tile_home_cell[tile_id]
        current_cell_key == MapGetOr(state.tile_id_to_cell, tile_id, Undefined)
    IN ~(current_cell_key # home_cell_key)

is_solved(state) ==
  \A tile_id \in DOMAIN state.tile_home_cell :
    LET home_cell_key == state.tile_home_cell[tile_id]
        current_cell_key == MapGetOr(state.tile_id_to_cell, tile_id, Undefined)
        rotation_steps == MapGetOr(state.tile_rot, tile_id, 0)
    IN ~(current_cell_key # home_cell_key \/ rotation_steps # 0)

(***************************************************************************)
(* move.js                                                                 *)
(***************************************************************************)
\* Variant: the remainder alone, which keeps the sign of a negative value.
positive_mod_no_wrap(value, modulus) == JsRem(value, modulus)

positive_mod(value, modulus) == JsRem(JsRem(value, modulus) + modulus, modulus)

\* Variant: the direction sign is left out of the delta.
NextRotationUnsigned(previous_rotation_steps, rotation_steps_cw, direction_sign) ==
  JsRem(JsRem(previous_rotation_steps - rotation_steps_cw, 6) + 6, 6)

\* Variant: every operator turns its tiles by one step.
NextRotationOneStep(previous_rotation_steps, rotation_steps_cw, direction_sign) ==
  JsRem(JsRem(previous_rotation_steps - direction_sign, 6) + 6, 6)

\* The rotation written for a tile by apply_move (cycle tiles and spin tiles).
NextRotation(previous_rotation_steps, rotation_steps_cw, direction_sign) ==
  positive_mod(previous_rotation_steps - rotation_steps_cw * direction_sign, 6)

\* Variant: the index is clamped at the ends of the cycle instead of wrapping.
DestinationIndexNoWrap(source_index, cycle_length, direction_sign) ==
  IF direction_sign = 1
  THEN (IF source_index + 1 < cycle_length THEN source_index + 1 ELSE source_index)
  ELSE (IF source_index >= 1 THEN source_index - 1 ELSE source_index)

\* Variant: both signs take the clockwise branch.
DestinationIndexAlwaysCw(source_index, cycle_length, direction_sign) ==
  (source_index + 1) % cycle_length

\* Variant: the two branches are exchanged.
DestinationIndexSwapped(source_index, cycle_length, direction_sign) ==
  IF direction_sign = 1
  THEN (source_index - 1 + cycle_length) % cycle_length
  ELSE (source_index + 1) % cycle_length

\* Index written by the tile read at source_index (0-based, as in the code).
DestinationIndex(source_index, cycle_length, direction_sign) ==
  IF direction_sign = 1
  THEN (source_index + 1) % cycle_length
  ELSE (source_index - 1 + cycle_length) % cycle_length

\* The first loop of apply_move after source_index iterations.
RECURSIVE CycleLoop(_, _, _, _, _)
CycleLoop(state, anchor_instance, direction_sign, source_tile_ids, iterations) ==
  IF iterations = 0 THEN state
  ELSE LET before == CycleLoop(state, anchor_instance, direction_sign,
                               source_tile_ids, iterations - 1)
           source_index == iterations - 1
           cycle_length == Len(anchor_instance.cells)
           tile_id == source_tile_ids[source_index + 1]
           destination_index == DestinationIndex(source_index, cycle_length,
                                                 direction_sign)
           destination_cell_key == anchor_instance.cells[destination_index + 1]
           previous_rotation_steps == MapGetOr(before.tile_rot, tile_id, 0)
       IN [before EXCEPT
             !.cell_to_tile_id = MapSet(@, destination_cell_key, tile_id),
             !.tile_id_to_cell = MapSet(@, tile_id, destination_cell_key),
             !.tile_rot = MapSet(@, tile_id,
                            NextRotation(previous_rotation_steps,
                                         anchor_instance.rotation_steps_cw,
                                         direction_sign))]

\* The second loop of apply_move after the first `iterations` spin cells:
\* a spin cell without a tile is skipped.
RECURSIVE SpinLoop(_, _, _, _)
SpinLoop(acc, anchor_instance, direction_sign, iterations) ==
  IF iterations = 0 THEN acc
  ELSE LET before == SpinLoop(acc, anchor_instance, direction_sign, iterations - 1)
           spin_cell_key == anchor_instance.spin_cells[iterations]
           spin_tile_id == MapGetOr(before.state.cell_to_tile_id, spin_cell_key,
                                    Undefined)
           previous_rotation_steps == MapGetOr(before.state.tile_rot, spin_tile_id, 0)
       IN IF IsFalsy(spin_tile_id) THEN before
          ELSE [state |-> [before.state EXCEPT
                             !.tile_rot = MapSet(@, spin_tile_id,
                                            NextRotation(previous_rotation_steps,
                                                         anchor_instance.rotation_steps_cw,
                                                         direction_sign))],
                spin_tile_ids |-> Append(before.spin_tile_ids, spin_tile_id)]

MissingTileError(cell_key_value) == "Missing tile in cell " \o cell_key_value \o "."

\* Variant: each cell's tile is resolved inside the move loop, so the slots
\* before the first missing cell are already written when the error is thrown.
apply_move_lazy_check(state, anchor_instance, direction_sign) ==
  LET cycle_cell_keys == anchor_instance.cells
      cycle_length == Len(cycle_cell_keys)
      source_tile_ids == [i \in 1..cycle_length |->
                            MapGetOr(state.cell_to_tile_id, cycle_cell_keys[i],
                                     Undefined)]
      missing == {i \in 1..cycle_length : IsFalsy(source_tile_ids[i])}
  IN IF missing # {}
     THEN LET first_missing == CHOOSE i \in missing : \A j \in missing : i <= j
          IN [state |-> CycleLoop(state, anchor_instance, direction_sign,
                                  source_tile_ids, first_missing - 1),
              moved_tile_ids |-> <<>>,
              error |-> MissingTileError(cycle_cell_keys[first_missing])]
     ELSE LET after_cycle == CycleLoop(state, anchor_instance, direction_sign,
                                       source_tile_ids, cycle_length)
              after_spin == SpinLoop([state |-> after_cycle, spin_tile_ids |-> <<>>],
                                     anchor_instance, direction_sign,
                                     Len(anchor_instance.spin_cells))
          IN [state |-> after_spin.state,
              moved_tile_ids |-> UniqueInOrder(source_tile_ids \o after_spin.spin_tile_ids),
              error |-> ""]

\* Variant: the spin cells are ignored.
apply_move_without_spin(state, anchor_instance, direction_sign) ==
  LET cycle_cell_keys == anchor_instance.cells
      cycle_length == Len(cycle_cell_keys)
      source_tile_ids == [i \in 1..cycle_length |->
                            MapGetOr(state.cell_to_tile_id, cycle_cell_keys[i],
                                     Undefined)]
      missing == {i \in 1..cycle_length : IsFalsy(source_tile_ids[i])}
  IN IF missing # {}
     THEN LET first_missing == CHOOSE i \in missing : \A j \in missing : i <= j
          IN [state |-> state, moved_tile_ids |-> <<>>,
              error |-> MissingTileError(cycle_cell_keys[first_missing])]
     ELSE [state |-> CycleLoop(state, anchor_instance, direction_sign,
                               source_tile_ids, cycle_length),
           moved_tile_ids |-> UniqueInOrder(source_tile_ids),
           error |-> ""]

\* Variant: the returned list holds the cycle tiles only.
apply_move_returns_cycle_only(state, anchor_instance, direction_sign) ==
  LET cycle_cell_keys == anchor_instance.cells
      cycle_length == Len(cycle_cell_keys)
      source_tile_ids == [i \in 1..cycle_length |->
                            MapGetOr(state.cell_to_tile_id, cycle_cell_keys[i],
                                     Undefined)]
      missing == {i \in 1..cycle_length : IsFalsy(source_tile_ids[i])}
  IN IF missing # {}
     THEN LET first_missing == CHOOSE i \in missing : \A j \in missing : i <= j
          IN [state |-> state, moved_tile_ids |-> <<>>,
              error |-> MissingTileError(cycle_cell_keys[first_missing])]
     ELSE LET after_cycle == CycleLoop(state, anchor_instance, direction_sign,
                                       source_tile_ids, cycle_length)
              after_spin == SpinLoop([state |-> after_cycle, spin_tile_ids |-> <<>>],
                                     anchor_instance, direction_sign,
                                     Len(anchor_instance.spin_cells))
          IN [state |-> after_spin.state,
              moved_tile_ids |-> UniqueInOrder(source_tile_ids),
              error |-> ""]

\* apply_move(state, anchor_instance, direction_sign): the state it leaves,
\* the list it returns, and the error it throws ("" when it returns).
apply_move(state, anchor_instance, direction_sign) ==
  LET cycle_cell_keys == anchor_instance.cells
      cycle_length == Len(cycle_cell_keys)
      source_tile_ids == [i \in 1..cycle_length |->
                            MapGetOr(state.cell_to_tile_id, cycle_cell_keys[i],
                                     Undefined)]
      missing == {i \in 1..cycle_length : IsFalsy(source_tile_ids[i])}
  IN IF missing # {}
     THEN LET first_missing == CHOOSE i \in missing : \A j \in missing : i <= j
          IN [state |-> state, moved_tile_ids |-> <<>>,
              error |-> MissingTileError(cycle_cell_keys[first_missing])]
     ELSE LET after_cycle == CycleLoop(state, anchor_instance, direction_sign,
                                       source_tile_ids, cycle_length)
              after_spin == SpinLoop([state |-> after_cycle, spin_tile_ids |-> <<>>],
                                     anchor_instance, direction_sign,
                                     Len(anchor_instance.spin_cells))
          IN [state |-> after_spin.state,
              moved_tile_ids |-> UniqueInOrder(source_tile_ids \o after_spin.spin_tile_ids),
              error |-> ""]

(***************************************************************************)
(* main.js: startup, the scramble loop, and moves requested afterwards.    *)
(***************************************************************************)
DirectionSigns == {1, -1}

GridShapes == {shape \in (1..MaxGridW) \X (1..MaxGridH) : shape[2] % 2 = 1}

\* derive_grid_shape has not been called.
NoDerive == [pc |-> "idle"]

NoCall ==
  [anchor_instance |-> [operator_id |-> "", anchor_id |-> "", cells |-> <<>>,
                        spin_cells |-> <<>>, rotation_steps_cw |-> 0],
   direction_sign |-> 0, moved_tile_ids |-> <<>>, error |-> "", made |-> FALSE]

AllInstances ==
  UNION {Range(instances_by_operator_id[operator_id]) : operator_id \in OperatorIds}

\* neighbor_cell has not been called.
NoWalk == [made |-> FALSE, cell |-> [q |-> 0, r |-> 0], from |-> [q |-> 0, r |-> 0],
           direction_index |-> 0]

\* The UI has not been constructed.
NoUi == [pc |-> "none"]

\* null for hover_instance and hovered_instance; an instance is << instance >>.
NoHover == <<>>

\* let last_pointer_world = null
NoPointer == -1

NoPointerDown == [made |-> FALSE, button |-> 0, locked |-> FALSE, hover |-> NoHover,
                  request |-> 0]

\* The UI after construction; last_pointerdown (the last pointerdown event and
\* the direction it requested) and finished (run_move calls that returned) are
\* history.  controller names the input controller:
\* "input" is ui/input.js with main.js, "variant" the controller of
\* render/tile_view.js with the main of part_001, which allows every
\* operator and starts with the first of them.  shown_count (the calls of
\* show_success_popup) is history.
InitialUiFor(controller, is_explore_mode) ==
  [controller |-> controller,
   is_explore_mode |-> is_explore_mode,
   pc |-> "idle",
   interaction_locked |-> FALSE,
   is_preview_mode |-> FALSE,
   popup_visible |-> FALSE,
   has_shown_solved_notification |-> is_explore_mode,
   shown_count |-> 0,
   hovered_instance |-> NoHover,
   input_locked |-> FALSE,
   hover_instance |-> NoHover,
   last_pointer_world |-> NoPointer,
   selected_operator_id |-> "ring6_60",
   active_operator_id |-> IF controller = "input" THEN "vertex3_120" ELSE "ring6_60",
   last_pointerdown |-> NoPointerDown,
   finished |-> 0]

\* The UI of a session without explore=1.
InitialUi(controller) == InitialUiFor(controller, FALSE)

\* Startup: the grid, the instances of every operator, and the solved board.
Startup(grid_w, grid_h, state_cells) ==
  /\ startup = [grid_w |-> grid_w, grid_h |-> grid_h, error |-> ""]
  /\ derive = NoDerive
  /\ ui = InitialUi("input")
  /\ walk = NoWalk
  /\ grid = create_grid(grid_w, grid_h)
  /\ instances_by_operator_id =
       [operator_id \in OperatorIds |-> build_anchor_instances(grid, operator_id)]
  /\ board_state = create_solved_state([all_cells |-> state_cells])
  /\ scramble_index = 0
  /\ play_moves = 0
  /\ phase = "scramble"
  /\ move_log = <<>>
  /\ prev_state = board_state
  /\ last_call = NoCall
  /\ replay_target = board_state
  /\ repeat_count = 0
  /\ repeat_base = board_state

Init ==
  \E shape \in GridShapes :
    Startup(shape[1], shape[2], create_grid(shape[1], shape[2]).all_cells)

\* One call apply_move(board_state, anchor_instance, direction_sign).
CallApplyMove(anchor_instance, direction_sign) ==
  LET outcome == apply_move(board_state, anchor_instance, direction_sign)
  IN /\ board_state' = outcome.state
     /\ prev_state' = board_state
     /\ last_call' = [anchor_instance |-> anchor_instance,
                      direction_sign |-> direction_sign,
                      moved_tile_ids |-> outcome.moved_tile_ids,
                      error |-> outcome.error, made |-> TRUE]

\* A scramble iteration that picks an operator with instances and applies one
\* of them; an error thrown by apply_move ends the startup.
ScrambleIteration(iteration_limit) ==
  /\ phase = "scramble"
  /\ scramble_index < iteration_limit
  /\ \E random_operator_id \in OperatorIds :
       \E instance_index \in 1..Len(instances_by_operator_id[random_operator_id]) :
         \E direction_sign \in DirectionSigns :
           LET random_anchor_instance ==
                 instances_by_operator_id[random_operator_id][instance_index]
           IN /\ CallApplyMove(random_anchor_instance, direction_sign)
              /\ IF last_call'.error = ""
                 THEN /\ move_log' = Append(move_log,
                                       [anchor_instance |-> random_anchor_instance,
                                        direction_sign |-> direction_sign,
                                        state_before |-> board_state])
                      /\ phase' = phase
                 ELSE /\ move_log' = move_log
                      /\ phase' = "failed"
  /\ scramble_index' = scramble_index + 1
  /\ UNCHANGED <<walk, ui, play_moves, startup, derive, grid, instances_by_operator_id, replay_target, repeat_count,
                 repeat_base>>

ScrambleMove == ScrambleIteration(MaxScramble)

\* A scramble iteration that picks an operator without instances: `continue`.
ScrambleSkip ==
  /\ phase = "scramble"
  /\ scramble_index < MaxScramble
  /\ \E random_operator_id \in OperatorIds :
       Len(instances_by_operator_id[random_operator_id]) = 0
  /\ scramble_index' = scramble_index + 1
  /\ UNCHANGED <<walk, ui, play_moves, startup, derive, grid, instances_by_operator_id, board_state, phase, move_log,
                 prev_state, last_call, replay_target, repeat_count, repeat_base>>

\* The player applies the inverse of the most recent move not yet undone.
ReplayInverse ==
  /\ phase \in {"scramble", "replay"}
  /\ move_log # <<>>
  /\ LET entry == move_log[Len(move_log)]
     IN /\ CallApplyMove(entry.anchor_instance, 0 - entry.direction_sign)
        /\ replay_target' = entry.state_before
  /\ move_log' = SubSeq(move_log, 1, Len(move_log) - 1)
  /\ phase' = "replay"
  /\ UNCHANGED <<walk, ui, play_moves, startup, derive, grid, instances_by_operator_id, scramble_index, repeat_count,
                 repeat_base>>

Next == ScrambleMove \/ ScrambleSkip \/ ReplayInverse

Spec == Init /\ [][Next]_vars

(***************************************************************************)
(* The player requests the same move several times in a row.               *)
(***************************************************************************)
RepeatScramble == ScrambleIteration(MaxRepeatScramble)

RepeatFirst ==
  /\ phase = "scramble"
  /\ \E anchor_instance \in AllInstances :
       \E direction_sign \in DirectionSigns :
         CallApplyMove(anchor_instance, direction_sign)
  /\ repeat_base' = board_state
  /\ repeat_count' = 1
  /\ phase' = "repeat"
  /\ UNCHANGED <<walk, ui, play_moves, startup, derive, grid, instances_by_operator_id, scramble_index, move_log,
                 replay_target>>

RepeatAgain ==
  /\ phase = "repeat"
  /\ repeat_count < MaxRepeat
  /\ CallApplyMove(last_call.anchor_instance, last_call.direction_sign)
  /\ repeat_count' = repeat_count + 1
  /\ UNCHANGED <<walk, ui, play_moves, startup, derive, grid, instances_by_operator_id, scramble_index, phase, move_log,
                 replay_target, repeat_base>>

NextRepeat == RepeatScramble \/ RepeatFirst \/ RepeatAgain

SpecRepeat == Init /\ [][NextRepeat]_vars

(***************************************************************************)
(* Free play: after the scramble the player requests any moves.            *)
(***************************************************************************)
\* run_move: apply_move(board_state, anchor_instance, direction_sign).
PlayMove ==
  /\ phase \in {"scramble", "play"}
  /\ play_moves < MaxPlayMoves
  /\ \E anchor_instance \in AllInstances :
       \E direction_sign \in DirectionSigns :
         board_state' = apply_move(board_state, anchor_instance, direction_sign).state
  /\ play_moves' = play_moves + 1
  /\ phase' = "play"
  /\ UNCHANGED <<walk, ui, startup, derive, grid, instances_by_operator_id, scramble_index,
                 move_log, prev_state, last_call, replay_target, repeat_count,
                 repeat_base>>

NextPlay == PlayMove

SpecPlay == Init /\ [][NextPlay]_vars

(***************************************************************************)
(* ui/input.js and the UI part of main.js: pointer and key events, run_move *)
(* and the end of its animation.                                           *)
(***************************************************************************)
\* The controller state carries pivot_hit_radius_px where pointer positions
\* are world points (<< point >>, null is << >>); elsewhere pointer positions
\* are named by a pivot.
PointerIsWorldPoint(u) == "pivot_hit_radius_px" \in DOMAIN u

\* !last_pointer_world
PointerIsNull(u) ==
  IF PointerIsWorldPoint(u)
  THEN u.last_pointer_world = <<>>
  ELSE u.last_pointer_world = NoPointer

\* find_nearest_anchor over world points: the first instance of the active
\* list with the least distance among those within the hit radius.
find_nearest_anchor_world(pointer_world, active_instances, pivot_hit_radius_px) ==
  LET distance == [i \in 1..Len(active_instances) |->
                     DistanceSquared(active_instances[i].anchor_world, pointer_world)]
      radius == 1000 * pivot_hit_radius_px
      within == {i \in 1..Len(active_instances) : distance[i] <= radius * radius}
  IN IF within = {}
     THEN NoHover
     ELSE << active_instances[CHOOSE i \in within :
                                \A other \in within :
                                  \/ distance[i] < distance[other]
                                  \/ distance[i] = distance[other] /\ i <= other] >>

\* find_nearest_anchor: pointer positions are named by the pivot of the
\* active list nearest to them within the hit radius, 0 when there is none.
find_nearest_anchor(u, instances) ==
  LET active_instances == instances[u.active_operator_id]
  IN IF PointerIsWorldPoint(u)
     THEN find_nearest_anchor_world(u.last_pointer_world[1], active_instances,
                                    u.pivot_hit_radius_px)
     ELSE IF u.last_pointer_world >= 1 /\ u.last_pointer_world <= Len(active_instances)
          THEN << active_instances[u.last_pointer_world] >>
          ELSE NoHover

\* hover?.anchor_id
HoverAnchorId(hover) == IF hover = NoHover THEN Undefined ELSE hover[1].anchor_id

\* main.js on_hover_change -> update_hover_highlight
on_hover_change(u, instance) ==
  IF u.interaction_locked THEN u ELSE [u EXCEPT !.hovered_instance = instance]

set_hover_instance(u, next_hover_instance) ==
  IF HoverAnchorId(u.hover_instance) = HoverAnchorId(next_hover_instance)
  THEN u
  ELSE on_hover_change([u EXCEPT !.hover_instance = next_hover_instance],
                       next_hover_instance)

recompute_hover_from_last_pointer(u, instances) ==
  IF u.input_locked \/ PointerIsNull(u)
  THEN set_hover_instance(u, NoHover)
  ELSE set_hover_instance(u, find_nearest_anchor(u, instances))

\* Variant: the lock flag is set without recomputing the hover.
set_interaction_locked_only_flag(u, instances, is_locked) ==
  [u EXCEPT !.input_locked = is_locked]

set_interaction_locked(u, instances, is_locked) ==
  recompute_hover_from_last_pointer([u EXCEPT !.input_locked = is_locked], instances)

set_instances(u, instances, operator_id) ==
  recompute_hover_from_last_pointer([u EXCEPT !.active_operator_id = operator_id],
                                    instances)

set_pivot_hit_radius(u, instances, next_pivot_hit_radius_px) ==
  recompute_hover_from_last_pointer(
    [u EXCEPT !.pivot_hit_radius_px = next_pivot_hit_radius_px], instances)

\* The direction_sign the pointerdown handler passes to on_move_request for
\* a button, 0 when it requests nothing.
pointerdown_direction(controller, button) ==
  IF controller = "input"
  THEN IF button = 0 THEN 1 ELSE IF button = 2 THEN -1 ELSE 0
  ELSE IF button = 0 THEN -1 ELSE IF button = 2 THEN 1 ELSE 0

\* pointermove
PointerMove ==
  /\ ui.pc \in {"idle", "animating", "failed"}
  /\ \E pointer_world \in 0..MaxPointer :
       ui' = recompute_hover_from_last_pointer(
               [ui EXCEPT !.last_pointer_world = pointer_world],
               instances_by_operator_id)
  /\ UNCHANGED <<walk, startup, derive, grid, instances_by_operator_id, board_state,
                 scramble_index, play_moves, phase, move_log, prev_state, last_call,
                 replay_target, repeat_count, repeat_base>>

\* Variant: only the preview blocks a move request.
on_move_request_returns_in_preview_only(u) == u.is_preview_mode

\* on_move_request: if (is_preview_mode || success_popup_layer.visible) return;
on_move_request_returns(u) == u.is_preview_mode \/ u.popup_visible

\* pointerdown -> on_move_request -> run_move up to its await: the lock is
\* taken, apply_move runs, and the animation starts.  At most move_limit
\* moves are requested.
PointerDownUpTo(move_limit) ==
  /\ ui.pc \in {"idle", "animating", "failed"}
  /\ \E button \in 0..MaxButton :
       LET direction_sign ==
             IF ui.input_locked \/ ui.hover_instance = NoHover
             THEN 0
             ELSE pointerdown_direction(ui.controller, button)
           noted == [ui EXCEPT !.last_pointerdown =
                       [made |-> TRUE, button |-> button, locked |-> ui.input_locked,
                        hover |-> ui.hover_instance, request |-> direction_sign]]
           runs == /\ direction_sign # 0
                   /\ ~on_move_request_returns(ui)
                   /\ ~ui.interaction_locked
       IN IF runs
          THEN /\ play_moves < move_limit
               /\ CallApplyMove(ui.hover_instance[1], direction_sign)
               /\ ui' = [set_interaction_locked(
                           [noted EXCEPT !.interaction_locked = TRUE],
                           instances_by_operator_id, TRUE)
                         EXCEPT !.hovered_instance = NoHover,
                                !.pc = IF last_call'.error = "" THEN "animating"
                                       ELSE "failed"]
               /\ play_moves' = play_moves + 1
          ELSE /\ ui' = noted
               /\ UNCHANGED <<walk, board_state, prev_state, last_call, play_moves>>
  /\ UNCHANGED <<walk, startup, derive, grid, instances_by_operator_id, scramble_index,
                 phase, move_log, replay_target, repeat_count, repeat_base>>

PointerDown == PointerDownUpTo(MaxUiMoves)

\* Variant: the popup is shown whenever the board is solved.
solved_notification_every_time(u, state) ==
  IF is_solved(state)
  THEN [u EXCEPT !.has_shown_solved_notification = TRUE,
                 !.popup_visible = TRUE,
                 !.shown_count = @ + 1]
  ELSE u

\* if (is_solved(board_state) && !has_shown_solved_notification) { ... }
solved_notification(u, state) ==
  IF is_solved(state) /\ ~u.has_shown_solved_notification
  THEN [u EXCEPT !.has_shown_solved_notification = TRUE,
                 !.popup_visible = TRUE,
                 !.shown_count = @ + 1]
  ELSE u

\* run_move after its await: the final sync, the solved check, the unlock.
AnimationFinish ==
  /\ ui.pc = "animating"
  /\ ui' = [set_interaction_locked(
              [solved_notification(ui, board_state) EXCEPT !.interaction_locked = FALSE],
              instances_by_operator_id, FALSE)
            EXCEPT !.pc = "idle", !.finished = @ + 1]
  /\ UNCHANGED <<walk, startup, derive, grid, instances_by_operator_id, board_state,
                 scramble_index, play_moves, phase, move_log, prev_state, last_call,
                 replay_target, repeat_count, repeat_base>>

\* keydown of an operator key: on_keydown and main's on_operator_change.
KeydownOperator ==
  /\ ui.pc \in {"idle", "animating", "failed"}
  /\ \E operator_id \in OperatorIds :
       /\ ui.controller = "input" => operator_id = "vertex3_120"
       /\ operator_id # ui.selected_operator_id
       /\ ui' = [set_instances(
                   set_hover_instance([ui EXCEPT !.selected_operator_id = operator_id],
                                      NoHover),
                   instances_by_operator_id, operator_id)
                 EXCEPT !.hovered_instance = NoHover]
  /\ UNCHANGED <<walk, startup, derive, grid, instances_by_operator_id, board_state,
                 scramble_index, play_moves, phase, move_log, prev_state, last_call,
                 replay_target, repeat_count, repeat_base>>

\* keydown of Space: apply_preview_mode(!is_preview_mode)
KeydownSpace ==
  /\ ui.pc \in {"idle", "animating", "failed"}
  /\ ui' = [ui EXCEPT !.is_preview_mode = ~@]
  /\ UNCHANGED <<walk, startup, derive, grid, instances_by_operator_id, board_state,
                 scramble_index, play_moves, phase, move_log, prev_state, last_call,
                 replay_target, repeat_count, repeat_base>>

\* pointertap on the close button of the solved popup.
PopupClose ==
  /\ ui.pc \in {"idle", "animating", "failed"}
  /\ ui.popup_visible
  /\ ui' = [ui EXCEPT !.popup_visible = FALSE]
  /\ UNCHANGED <<walk, startup, derive, grid, instances_by_operator_id, board_state,
                 scramble_index, play_moves, phase, move_log, prev_state, last_call,
                 replay_target, repeat_count, repeat_base>>

InitUi ==
  \E shape \in GridShapes :
    \E controller \in {"input", "variant"} :
      /\ startup = [grid_w |-> shape[1], grid_h |-> shape[2], error |-> ""]
      /\ derive = NoDerive
      /\ ui = InitialUi(controller)
      /\ walk = NoWalk
      /\ grid = create_grid(shape[1], shape[2])
      /\ instances_by_operator_id =
           [operator_id \in OperatorIds |-> build_anchor_instances(grid, operator_id)]
      /\ board_state = create_solved_state(grid)
      /\ scramble_index = 0
      /\ play_moves = 0
      /\ phase = "play"
      /\ move_log = <<>>
      /\ prev_state = board_state
      /\ last_call = NoCall
      /\ replay_target = board_state
      /\ repeat_count = 0
      /\ repeat_base = board_state

NextUi ==
  \/ PointerMove
  \/ PointerDown
  \/ AnimationFinish
  \/ KeydownOperator
  \/ KeydownSpace
  \/ PopupClose

SpecUi == InitUi /\ [][NextUi]_vars

(***************************************************************************)
(* Desynchronised calls: the board state was built from a cell list that   *)
(* lacks one cell of the grid the instances were built for.                *)
(***************************************************************************)
WithoutIndex(seq, index) ==
  SubSeq(seq, 1, index - 1) \o SubSeq(seq, index + 1, Len(seq))

InitDesync ==
  \E shape \in GridShapes :
    LET all_cells == create_grid(shape[1], shape[2]).all_cells
    IN \E dropped \in 1..Len(all_cells) :
         Startup(shape[1], shape[2], WithoutIndex(all_cells, dropped))

DesyncMove == ScrambleIteration(MaxDesyncMoves)

NextDesync == DesyncMove

SpecDesync == InitDesync /\ [][NextDesync]_vars

(***************************************************************************)
(* Sessions with and without explore=1 on the narrowest grids: a session   *)
(* with explore=1 starts on the solved board, any other on a board the     *)
(* scramble loop left, here the solved board or one move away from it.     *)
(***************************************************************************)
NotifyShapes == {shape \in GridShapes : shape[1] = 1}

ScrambledBoards(g, instances) ==
  LET solved == create_solved_state(g)
      all_instances == UNION {Range(instances[operator_id]) : operator_id \in OperatorIds}
  IN {solved}
       \cup {apply_move(solved, anchor_instance, direction_sign).state :
               anchor_instance \in all_instances, direction_sign \in DirectionSigns}

InitNotify ==
  \E shape \in NotifyShapes :
    \E controller \in {"input", "variant"} :
      \E is_explore_mode \in BOOLEAN :
        /\ startup = [grid_w |-> shape[1], grid_h |-> shape[2], error |-> ""]
        /\ derive = NoDerive
        /\ ui = InitialUiFor(controller, is_explore_mode)
        /\ walk = NoWalk
        /\ grid = create_grid(shape[1], shape[2])
        /\ instances_by_operator_id =
             [operator_id \in OperatorIds |-> build_anchor_instances(grid, operator_id)]
        /\ board_state \in IF is_explore_mode
                            THEN {create_solved_state(grid)}
                            ELSE ScrambledBoards(grid, instances_by_operator_id)
        /\ scramble_index = 0
        /\ play_moves = 0
        /\ phase = "play"
        /\ move_log = <<>>
        /\ prev_state = board_state
        /\ last_call = NoCall
        /\ replay_target = board_state
        /\ repeat_count = 0
        /\ repeat_base = board_state

NotifyPointerDown == PointerDownUpTo(MaxNotifyMoves)

NextNotify ==
  \/ PointerMove
  \/ NotifyPointerDown
  \/ AnimationFinish
  \/ KeydownOperator
  \/ KeydownSpace
  \/ PopupClose

SpecNotify == InitNotify /\ [][NextNotify]_vars

(***************************************************************************)
(* The UI over a board built without the first cell of the grid, with      *)
(* animation frames that keep being delivered: tween_progress resolves at the frame whose progress    *)
(* reaches 1, and the clock of the frames advances, so the continuation of *)
(* run_move (AnimationFinish) is weakly fair.                              *)
(***************************************************************************)
InitUiDesync ==
  \E shape \in GridShapes :
    \E controller \in {"input", "variant"} :
      LET all_cells == create_grid(shape[1], shape[2]).all_cells
      IN \E dropped \in {1} :
           /\ startup = [grid_w |-> shape[1], grid_h |-> shape[2], error |-> ""]
           /\ derive = NoDerive
           /\ ui = InitialUi(controller)
           /\ walk = NoWalk
           /\ grid = create_grid(shape[1], shape[2])
           /\ instances_by_operator_id =
                [operator_id \in OperatorIds |->
                   build_anchor_instances(grid, operator_id)]
           /\ board_state =
                create_solved_state([all_cells |-> WithoutIndex(all_cells, dropped)])
           /\ scramble_index = 0
           /\ play_moves = 0
           /\ phase = "play"
           /\ move_log = <<>>
           /\ prev_state = board_state
           /\ last_call = NoCall
           /\ replay_target = board_state
           /\ repeat_count = 0
           /\ repeat_base = board_state

SpecUiDesync == InitUiDesync /\ [][NextUi]_vars /\ WF_vars(AnimationFinish)

(***************************************************************************)
(* Startup step by step, for every requested shape: create_grid, then the  *)
(* instances of every operator, then create_solved_state.                  *)
(***************************************************************************)
\* `let grid;` before create_grid has returned.
NoGrid == [w |-> 0, h |-> 0, all_cells |-> <<>>, playable_cells |-> {}]

NoInstances == [operator_id \in OperatorIds |-> <<>>]

NoState == [cell_to_tile_id |-> <<>>, tile_id_to_cell |-> <<>>,
            tile_rot |-> <<>>, tile_home_cell |-> <<>>]

InitStartup ==
  \E grid_w \in 1..MaxShapeW :
    \E grid_h \in 0..MaxShapeH :
      /\ startup = [grid_w |-> grid_w, grid_h |-> grid_h, error |-> ""]
      /\ derive = NoDerive
      /\ ui = NoUi
      /\ walk = NoWalk
      /\ grid = NoGrid
      /\ instances_by_operator_id = NoInstances
      /\ board_state = NoState
      /\ scramble_index = 0
      /\ play_moves = 0
      /\ phase = "start"
      /\ move_log = <<>>
      /\ prev_state = NoState
      /\ last_call = NoCall
      /\ replay_target = NoState
      /\ repeat_count = 0
      /\ repeat_base = NoState

\* grid = create_grid(grid_w, grid_h); a throw ends the startup.
StartupCreateGrid ==
  /\ phase = "start"
  /\ LET created == create_grid(startup.grid_w, startup.grid_h)
     IN IF "error" \in DOMAIN created
        THEN /\ startup' = [startup EXCEPT !.error = created.error]
             /\ grid' = grid
             /\ phase' = "failed"
        ELSE /\ startup' = startup
             /\ grid' = created
             /\ phase' = "grid"
  /\ UNCHANGED <<walk, ui, play_moves, derive, instances_by_operator_id, board_state, scramble_index,
                 move_log, prev_state, last_call, replay_target, repeat_count,
                 repeat_base>>

\* The loop over get_operator_defs() filling instances_by_operator_id.
StartupBuildInstances ==
  /\ phase = "grid"
  /\ instances_by_operator_id' =
       [operator_id \in OperatorIds |-> build_anchor_instances(grid, operator_id)]
  /\ phase' = "instances"
  /\ UNCHANGED <<walk, ui, play_moves, startup, derive, grid, board_state, scramble_index, move_log,
                 prev_state, last_call, replay_target, repeat_count, repeat_base>>

\* const board_state = create_solved_state(grid);
StartupCreateSolvedState ==
  /\ phase = "instances"
  /\ board_state' = create_solved_state(grid)
  /\ phase' = "scramble"
  /\ UNCHANGED <<walk, ui, play_moves, startup, derive, grid, instances_by_operator_id, scramble_index,
                 move_log, prev_state, last_call, replay_target, repeat_count,
                 repeat_base>>

NextStartup ==
  StartupCreateGrid \/ StartupBuildInstances \/ StartupCreateSolvedState

SpecStartup == InitStartup /\ [][NextStartup]_vars

(***************************************************************************)
(* Image mode: derive_grid_shape is called with a target cell count, the   *)
(* aspect of the image and the padding.                                    *)
(***************************************************************************)
DEFAULT_TARGET_CELL_COUNT == 75

InitDerive ==
  \E target_cell_count \in
       (DEFAULT_TARGET_CELL_COUNT - TargetSpread)..(DEFAULT_TARGET_CELL_COUNT + TargetSpread) :
    \E p \in 1..MaxAspectTerm :
      \E q \in 1..MaxAspectTerm :
        \E padding_halves \in 0..MaxPaddingHalves :
          /\ derive = DeriveEntry([target_cell_count |-> target_cell_count,
                                   image_aspect |-> (p * Micro) \div q,
                                   padding_in_tile_units |-> padding_halves])
          /\ startup = [grid_w |-> 0, grid_h |-> 0, error |-> ""]
          /\ ui = NoUi
          /\ walk = NoWalk
          /\ grid = NoGrid
          /\ instances_by_operator_id = NoInstances
          /\ board_state = NoState
          /\ scramble_index = 0
          /\ play_moves = 0
          /\ phase = "derive"
          /\ move_log = <<>>
          /\ prev_state = NoState
          /\ last_call = NoCall
          /\ replay_target = NoState
          /\ repeat_count = 0
          /\ repeat_base = NoState

NextDerive ==
  \/ DeriveCandidate
  \/ DeriveReturn

SpecDerive == InitDerive /\ [][NextDerive]_vars

(***************************************************************************)
(* derive_grid_shape called with caller-supplied candidate_h_min and       *)
(* candidate_h_max, and create_grid on the derived shape.                  *)
(***************************************************************************)
InitDeriveOptions ==
  \E candidate_h_min \in 1..MaxCandidateH :
    \E candidate_h_max \in 1..MaxCandidateH :
      /\ derive = DeriveEntry([target_cell_count |-> DEFAULT_TARGET_CELL_COUNT,
                               image_aspect |-> (3 * Micro) \div 2,
                               padding_in_tile_units |-> 1,
                               candidate_h_min |-> candidate_h_min,
                               candidate_h_max |-> candidate_h_max])
      /\ startup = [grid_w |-> 0, grid_h |-> 0, error |-> ""]
      /\ ui = NoUi
      /\ walk = NoWalk
      /\ grid = NoGrid
      /\ instances_by_operator_id = NoInstances
      /\ board_state = NoState
      /\ scramble_index = 0
      /\ play_moves = 0
      /\ phase = "derive"
      /\ move_log = <<>>
      /\ prev_state = NoState
      /\ last_call = NoCall
      /\ replay_target = NoState
      /\ repeat_count = 0
      /\ repeat_base = NoState

\* grid = create_grid(grid_derivation.grid_w, grid_derivation.grid_h);
\* a throw ends the startup.
ImageModeCreateGrid ==
  /\ phase = "derive"
  /\ derive.pc = "done"
  /\ LET created == create_grid(derive.result.grid_w, derive.result.grid_h)
     IN IF "error" \in DOMAIN created
        THEN /\ startup' = [grid_w |-> derive.result.grid_w,
                            grid_h |-> derive.result.grid_h,
                            error |-> created.error]
             /\ grid' = grid
             /\ phase' = "failed"
        ELSE /\ startup' = [grid_w |-> derive.result.grid_w,
                            grid_h |-> derive.result.grid_h,
                            error |-> ""]
             /\ grid' = created
             /\ phase' = "grid"
  /\ UNCHANGED <<walk, ui, play_moves, derive, instances_by_operator_id, board_state, scramble_index,
                 move_log, prev_state, last_call, replay_target, repeat_count,
                 repeat_base>>

NextDeriveOptions ==
  \/ DeriveCandidate
  \/ DeriveReturn
  \/ ImageModeCreateGrid

SpecDeriveOptions == InitDeriveOptions /\ [][NextDeriveOptions]_vars

(***************************************************************************)
(* derive_tile_size called for a viewport, an image and a grid shape.      *)
(***************************************************************************)
InitTileSize ==
  \E viewport_width \in 0..MaxViewportPx, viewport_height \in 0..MaxViewportPx :
    \E image_width \in 1..MaxImagePx, image_height \in 1..MaxImagePx :
      \E grid_w \in 1..MaxGridW, grid_h \in {h \in 1..MaxGridH : h % 2 = 1} :
        \E padding_halves \in 0..MaxPaddingHalves, viewport_margin_px \in 0..MaxMarginPx :
          /\ derive = [pc |-> "tile_size_call",
                       options |-> [viewport_width |-> viewport_width,
                                    viewport_height |-> viewport_height,
                                    image_width |-> image_width,
                                    image_height |-> image_height,
                                    grid_w |-> grid_w,
                                    grid_h |-> grid_h,
                                    padding_in_tile_units |-> padding_halves,
                                    viewport_margin_px |-> viewport_margin_px]]
          /\ startup = [grid_w |-> grid_w, grid_h |-> grid_h, error |-> ""]
          /\ ui = NoUi
          /\ walk = NoWalk
          /\ grid = NoGrid
          /\ instances_by_operator_id = NoInstances
          /\ board_state = NoState
          /\ scramble_index = 0
          /\ play_moves = 0
          /\ phase = "derive"
          /\ move_log = <<>>
          /\ prev_state = NoState
          /\ last_call = NoCall
          /\ replay_target = NoState
          /\ repeat_count = 0
          /\ repeat_base = NoState

NextTileSize == DeriveTileSize

SpecTileSize == InitTileSize /\ [][NextTileSize]_vars

(***************************************************************************)
(* neighbor_cell applied again and again from any integer cell.            *)
(***************************************************************************)
InitWalk ==
  \E q \in (0 - MaxCoord)..MaxCoord :
    \E r \in (0 - MaxCoord)..MaxCoord :
      /\ walk = [made |-> FALSE, cell |-> [q |-> q, r |-> r],
                 from |-> [q |-> q, r |-> r], direction_index |-> 0]
      /\ startup = [grid_w |-> 0, grid_h |-> 0, error |-> ""]
      /\ derive = NoDerive
      /\ ui = NoUi
      /\ grid = NoGrid
      /\ instances_by_operator_id = NoInstances
      /\ board_state = NoState
      /\ scramble_index = 0
      /\ play_moves = 0
      /\ phase = "coords"
      /\ move_log = <<>>
      /\ prev_state = NoState
      /\ last_call = NoCall
      /\ replay_target = NoState
      /\ repeat_count = 0
      /\ repeat_base = NoState

\* walk.cell = neighbor_cell(walk.cell, direction_index), within the region.
NeighborStep ==
  /\ \E direction_index \in (0 - MaxDirection)..MaxDirection :
       LET next_cell == neighbor_cell(walk.cell, direction_index)
       IN /\ next_cell.q \in (0 - MaxCoord)..MaxCoord
          /\ next_cell.r \in (0 - MaxCoord)..MaxCoord
          /\ walk' = [made |-> TRUE, cell |-> next_cell, from |-> walk.cell,
                      direction_index |-> direction_index]
  /\ UNCHANGED <<startup, derive, ui, grid, instances_by_operator_id, board_state,
                 scramble_index, play_moves, phase, move_log, prev_state, last_call,
                 replay_target, repeat_count, repeat_base>>

NextWalk == NeighborStep

SpecWalk == InitWalk /\ [][NextWalk]_vars

(***************************************************************************)
(* Layout changes: the instances are built for a geometry and rebuilt for  *)
(* another one (rebuild_operator_instances).                               *)
(***************************************************************************)
Geometries ==
  [tile_size_px : 1..MaxTileSizePx,
   board_origin : [x : {0 - MaxOriginPx, MaxOriginPx},
                   y : {0 - MaxOriginPx, MaxOriginPx}]]

\* derive holds the geometry in use; previous_topology and
\* previous_tile_size_px are history of the instances replaced last.
InitLayout ==
  \E shape \in GridShapes :
    \E geometry \in Geometries :
      /\ startup = [grid_w |-> shape[1], grid_h |-> shape[2], error |-> ""]
      /\ grid = create_grid(shape[1], shape[2])
      /\ instances_by_operator_id =
           [operator_id \in OperatorIds |->
              build_anchor_instances_at(grid, operator_id, geometry)]
      /\ derive = [pc |-> "layout", geometry |-> geometry, rebuilt |-> FALSE,
                   previous_tile_size_px |-> geometry.tile_size_px,
                   previous_topology |->
                     [operator_id \in OperatorIds |->
                        TopologyList(instances_by_operator_id[operator_id])]]
      /\ ui = NoUi
      /\ walk = NoWalk
      /\ board_state = create_solved_state(grid)
      /\ scramble_index = 0
      /\ play_moves = 0
      /\ phase = "layout"
      /\ move_log = <<>>
      /\ prev_state = board_state
      /\ last_call = NoCall
      /\ replay_target = board_state
      /\ repeat_count = 0
      /\ repeat_base = board_state

\* rebuild_operator_instances() after the layout changed to a new geometry.
RebuildOperatorInstances ==
  /\ derive.pc = "layout"
  /\ \E geometry \in Geometries :
       /\ instances_by_operator_id' =
            [operator_id \in OperatorIds |->
               build_anchor_instances_at(grid, operator_id, geometry)]
       /\ derive' = [pc |-> "layout", geometry |-> geometry, rebuilt |-> TRUE,
                     previous_tile_size_px |-> derive.geometry.tile_size_px,
                     previous_topology |->
                       [operator_id \in OperatorIds |->
                          TopologyList(instances_by_operator_id[operator_id])]]
  /\ UNCHANGED <<startup, ui, walk, grid, board_state, scramble_index, play_moves,
                 phase, move_log, prev_state, last_call, replay_target, repeat_count,
                 repeat_base>>

NextLayout == RebuildOperatorInstances

SpecLayout == InitLayout /\ [][NextLayout]_vars

(***************************************************************************)
(* grid.js get_grid_bounds: the bounding rectangle of the hexes of a grid,  *)
(* in millionths of a pixel.  derive holds the arguments and the result of *)
(* the last call.                                                          *)
(***************************************************************************)
BoundsShapes == {shape \in (1..MaxShapeW) \X (1..MaxShapeH) : shape[2] % 2 = 1}

SetMin(values) == CHOOSE value \in values : \A other \in values : value <= other

SetMax(values) == CHOOSE value \in values : \A other \in values : value >= other

get_grid_bounds(g, tile_size_px, board_origin) ==
  LET hex_width == Sqrt3Micro * tile_size_px
      hex_height == 2 * Micro * tile_size_px
      center_points == {world_from_cell(g.all_cells[i], tile_size_px, board_origin) :
                          i \in 1..Len(g.all_cells)}
      min_x == SetMin({center_point.x - hex_width \div 2 : center_point \in center_points})
      max_x == SetMax({center_point.x + hex_width \div 2 : center_point \in center_points})
      min_y == SetMin({center_point.y - hex_height \div 2 : center_point \in center_points})
      max_y == SetMax({center_point.y + hex_height \div 2 : center_point \in center_points})
  IN [min_x |-> min_x, max_x |-> max_x, min_y |-> min_y, max_y |-> max_y,
      center_x |-> (min_x + max_x) \div 2, center_y |-> (min_y + max_y) \div 2,
      width |-> max_x - min_x, height |-> max_y - min_y]

\* The grid is built; get_grid_bounds has not been called.
InitBounds ==
  \E shape \in BoundsShapes :
    /\ startup = [grid_w |-> shape[1], grid_h |-> shape[2], error |-> ""]
    /\ grid = create_grid(shape[1], shape[2])
    /\ instances_by_operator_id = NoInstances
    /\ derive = [pc |-> "bounds", called |-> FALSE]
    /\ ui = NoUi
    /\ walk = NoWalk
    /\ board_state = NoState
    /\ scramble_index = 0
    /\ play_moves = 0
    /\ phase = "bounds"
    /\ move_log = <<>>
    /\ prev_state = board_state
    /\ last_call = NoCall
    /\ replay_target = board_state
    /\ repeat_count = 0
    /\ repeat_base = board_state

\* A call get_grid_bounds(grid, tile_size_px, board_origin).
GetGridBounds ==
  /\ derive.pc = "bounds"
  /\ \E geometry \in Geometries :
       derive' = [pc |-> "bounds", called |-> TRUE,
                  tile_size_px |-> geometry.tile_size_px,
                  board_origin |-> geometry.board_origin,
                  bounds |-> get_grid_bounds(grid, geometry.tile_size_px,
                                             geometry.board_origin)]
  /\ UNCHANGED <<startup, ui, walk, grid, instances_by_operator_id, board_state,
                 scramble_index, play_moves, phase, move_log, prev_state, last_call,
                 replay_target, repeat_count, repeat_base>>

NextBounds == GetGridBounds

SpecBounds == InitBounds /\ [][NextBounds]_vars

(***************************************************************************)
(* Resize events and the layout recompute of the variant main: the flag    *)
(* resize_recompute_scheduled, the requestAnimationFrame callbacks not yet *)
(* run (pending_callbacks), and the input controller under the rebuilt     *)
(* instances.  derive holds the layout state; unserved (a resize event not *)
(* yet followed by a recompute), coalesced (the last event found a         *)
(* callback pending) and recomputed are history.                           *)
(***************************************************************************)
PIVOT_HIT_RADIUS_MIN_PX == 10

\* resolve_relative_sizes(...).pivot_hit_radius_px: 0.012 of the confining
\* rectangle, at least PIVOT_HIT_RADIUS_MIN_PX; the boards here are a few
\* pixels wide, so the minimum applies.
pivot_hit_radius_px(geometry) == PIVOT_HIT_RADIUS_MIN_PX

\* The layouts of the viewports met here: every tile size, the board origin
\* at one of two places.
ResizeGeometries ==
  {geometry \in Geometries : geometry.board_origin.x = geometry.board_origin.y}

\* Pointer positions: the two places of the board origin.
PointerWorlds ==
  {[x |-> Micro * geometry.board_origin.x, y |-> Micro * geometry.board_origin.y] :
     geometry \in ResizeGeometries}

\* rebuild_operator_instances(): the map cleared and filled for every
\* allowed operator.
rebuild_operator_instances(g, geometry) ==
  [operator_id \in OperatorIds |->
     build_anchor_instances_at(g, operator_id, geometry)] @@ <<>>

\* Variant: the callback is requested whether or not one is pending.
schedule_resize_recompute_unguarded(d) ==
  [d EXCEPT !.resize_recompute_scheduled = TRUE,
            !.pending_callbacks = @ + 1]

schedule_resize_recompute(d) ==
  IF d.resize_recompute_scheduled
  THEN d
  ELSE [d EXCEPT !.resize_recompute_scheduled = TRUE,
                 !.pending_callbacks = @ + 1]

InitResize ==
  \E shape \in NotifyShapes :
    \E geometry \in ResizeGeometries :
      /\ startup = [grid_w |-> shape[1], grid_h |-> shape[2], error |-> ""]
      /\ grid = create_grid(shape[1], shape[2])
      /\ instances_by_operator_id = rebuild_operator_instances(grid, geometry)
      /\ derive = [pc |-> "resize", geometry |-> geometry,
                   resize_recompute_scheduled |-> FALSE, pending_callbacks |-> 0,
                   unserved |-> FALSE, coalesced |-> FALSE, recomputed |-> FALSE]
      /\ ui = [InitialUiFor("variant", FALSE) EXCEPT !.last_pointer_world = <<>>]
                @@ [pivot_hit_radius_px |-> pivot_hit_radius_px(geometry)]
      /\ walk = NoWalk
      /\ board_state = create_solved_state(grid)
      /\ scramble_index = 0
      /\ play_moves = 0
      /\ phase = "play"
      /\ move_log = <<>>
      /\ prev_state = board_state
      /\ last_call = NoCall
      /\ replay_target = board_state
      /\ repeat_count = 0
      /\ repeat_base = board_state

\* A resize event of the window, the renderer or the visual viewport.
ResizeEvent ==
  /\ derive.pc = "resize"
  /\ derive.pending_callbacks < MaxPendingCallbacks
  /\ derive' = [schedule_resize_recompute(derive)
                EXCEPT !.unserved = TRUE,
                       !.coalesced = derive.pending_callbacks > 0]
  /\ UNCHANGED <<startup, ui, walk, grid, instances_by_operator_id, board_state,
                 scramble_index, play_moves, phase, move_log, prev_state, last_call,
                 replay_target, repeat_count, repeat_base>>

\* The layout state after the callback ran for a viewport of this geometry.
ResizeFrameDone(geometry) ==
  [derive EXCEPT !.geometry = geometry,
                 !.resize_recompute_scheduled = FALSE,
                 !.pending_callbacks = @ - 1,
                 !.unserved = FALSE,
                 !.recomputed = TRUE]

\* The requestAnimationFrame callback: the flag is cleared, then
\* recompute_layout_and_visuals derives the geometry of the viewport,
\* rebuilds the instances, installs the list of the selected operator and
\* sets the hit radius.
ResizeFrame ==
  /\ derive.pc = "resize"
  /\ derive.pending_callbacks > 0
  /\ \E geometry \in ResizeGeometries :
       \E rebuilt \in {rebuild_operator_instances(grid, geometry)} :
         \E installed \in {set_instances(ui, rebuilt, ui.selected_operator_id)} :
           /\ derive' = ResizeFrameDone(geometry)
           /\ instances_by_operator_id' = rebuilt
           /\ ui' = set_pivot_hit_radius(installed, rebuilt,
                                         pivot_hit_radius_px(geometry))
  /\ UNCHANGED <<startup, walk, grid, board_state, scramble_index, play_moves,
                 phase, move_log, prev_state, last_call, replay_target, repeat_count,
                 repeat_base>>

\* pointermove to a world point.
PointerMoveWorld ==
  /\ derive.pc = "resize"
  /\ \E pointer_world \in PointerWorlds :
       ui' = recompute_hover_from_last_pointer(
               [ui EXCEPT !.last_pointer_world = << pointer_world >>],
               instances_by_operator_id)
  /\ UNCHANGED <<startup, derive, walk, grid, instances_by_operator_id, board_state,
                 scramble_index, play_moves, phase, move_log, prev_state, last_call,
                 replay_target, repeat_count, repeat_base>>

NextResize ==
  \/ ResizeEvent
  \/ ResizeFrame
  \/ PointerMoveWorld
  \/ KeydownOperator

\* ResizeFrame as far as the layout state goes.  The steps of NextResize
\* that change derive this way are the ResizeFrame steps, and both are
\* enabled in the same states.
ResizeFrameRuns ==
  /\ derive.pc = "resize"
  /\ derive.pending_callbacks > 0
  /\ \E geometry \in ResizeGeometries : derive' = ResizeFrameDone(geometry)

\* requestAnimationFrame runs its callback at the next frame.
SpecResize == InitResize /\ [][NextResize]_vars /\ WF_derive(ResizeFrameRuns)

(***************************************************************************)
(* Properties of the board under moves (specification Spec).               *)
(***************************************************************************)
GridCellKeys == grid.playable_cells

SolvedState == create_solved_state(grid)

LastCallReturned == last_call.made /\ last_call.error = ""

LastCycle == last_call.anchor_instance.cells

\* C1: in every state reached from the solved state by moves of the catalog,
\* cell_to_tile_id and tile_id_to_cell are mutual inverses over the fixed set
\* of grid cells and tiles: no key is added or removed, every cell holds one
\* tile and every tile is in one cell.
C1_MutualInverses ==
  /\ DOMAIN board_state.cell_to_tile_id = GridCellKeys
  /\ DOMAIN board_state.tile_id_to_cell = DOMAIN SolvedState.tile_id_to_cell
  /\ \A cell \in GridCellKeys :
       MapGetOr(board_state.tile_id_to_cell,
                MapGetOr(board_state.cell_to_tile_id, cell, Undefined),
                Undefined) = cell
  /\ \A tile_id \in DOMAIN SolvedState.tile_id_to_cell :
       MapGetOr(board_state.cell_to_tile_id,
                MapGetOr(board_state.tile_id_to_cell, tile_id, Undefined),
                Undefined) = tile_id

C1_Witness ==
  /\ LastCallReturned
  /\ Len(move_log) >= 2
  /\ \E cell \in GridCellKeys : board_state.cell_to_tile_id[cell] # cell
  /\ Len(LastCycle) = 6

\* C2: a move followed by the same instance with the opposite sign restores
\* the state the move started from, positions and rotations (both sign
\* orders, instances with and without a spin cell).
C2_Reversible ==
  phase = "replay" => board_state = replay_target

C2_Witness ==
  /\ phase = "replay"
  /\ LastCallReturned
  /\ last_call.direction_sign = 1
  /\ last_call.anchor_instance.spin_cells # <<>>
  /\ move_log # <<>>
  /\ prev_state # board_state

\* C3: after M moves from the solved state and then their inverses in reverse
\* order, is_solved holds and the state is the initial solved state.
C3_ScrambleSolvable ==
  (phase = "replay" /\ move_log = <<>>)
    => (is_solved(board_state) /\ board_state = SolvedState)

C3_Witness ==
  /\ phase = "replay"
  /\ move_log = <<>>
  /\ scramble_index = MaxScramble
  /\ \A operator_id \in OperatorIds : Len(instances_by_operator_id[operator_id]) > 0
  /\ ~is_solved(prev_state)

\* C5: after a move with cycle c[0..N-1], the tile that was in c[i] is in
\* c[(i + sign) mod N], in both maps.
C5_PermutationRule ==
  LastCallReturned =>
    \A i \in 0..(Len(LastCycle) - 1) :
      LET tile_id == prev_state.cell_to_tile_id[LastCycle[i + 1]]
          target == LastCycle[((i + last_call.direction_sign) % Len(LastCycle)) + 1]
      IN /\ MapGetOr(board_state.cell_to_tile_id, target, Undefined) = tile_id
         /\ MapGetOr(board_state.tile_id_to_cell, tile_id, Undefined) = target

C5_Witness ==
  /\ LastCallReturned
  /\ last_call.direction_sign = -1
  /\ Len(LastCycle) = 6
  /\ ~is_solved(prev_state)

\* C6: every rotation value is an integer in 0..5 in every reachable state.
C6_RotationRange ==
  \A tile_id \in DOMAIN board_state.tile_rot :
    board_state.tile_rot[tile_id] \in 0..5

C6_Witness ==
  /\ LastCallReturned
  /\ last_call.direction_sign = 1
  /\ last_call.anchor_instance.rotation_steps_cw = 2
  /\ \E i \in 1..Len(last_call.anchor_instance.spin_cells) :
       LET spin_tile_id ==
             board_state.cell_to_tile_id[last_call.anchor_instance.spin_cells[i]]
       IN /\ prev_state.tile_rot[spin_tile_id] = 0
          /\ board_state.tile_rot[spin_tile_id] = 4

\* C7: a move with direction sign s changes the rotation of every moved tile
\* from rot to (rot + rotation_steps_cw * s) mod 6.
C7_RotationDeltaAsDocumented ==
  LastCallReturned =>
    \A i \in 1..Len(LastCycle) :
      LET tile_id == prev_state.cell_to_tile_id[LastCycle[i]]
      IN board_state.tile_rot[tile_id] =
           (prev_state.tile_rot[tile_id]
              + last_call.anchor_instance.rotation_steps_cw * last_call.direction_sign) % 6

\* C10: the tile at the spin cell gets the same rotation delta as the cycle
\* tiles of the call and keeps its cell in both maps.
C10_SpinTile ==
  LastCallReturned =>
    \A k \in 1..Len(last_call.anchor_instance.spin_cells) :
      LET spin_cell_key == last_call.anchor_instance.spin_cells[k]
          spin_tile_id == prev_state.cell_to_tile_id[spin_cell_key]
          Delta(tile_id) ==
            (board_state.tile_rot[tile_id] - prev_state.tile_rot[tile_id]) % 6
      IN /\ board_state.cell_to_tile_id[spin_cell_key] = spin_tile_id
         /\ board_state.tile_id_to_cell[spin_tile_id] = spin_cell_key
         /\ \A i \in 1..Len(LastCycle) :
              Delta(prev_state.cell_to_tile_id[LastCycle[i]]) = Delta(spin_tile_id)

C10_Witness ==
  /\ LastCallReturned
  /\ last_call.anchor_instance.operator_id = "alt3_odd_120"
  /\ last_call.direction_sign = -1
  /\ \E k \in 1..Len(last_call.anchor_instance.spin_cells) :
       prev_state.tile_rot[prev_state.cell_to_tile_id[
         last_call.anchor_instance.spin_cells[k]]] # 0

\* Tiles whose cell or rotation differs between prev_state and board_state.
ChangedTiles ==
  {tile_id \in DOMAIN prev_state.tile_rot :
     \/ MapGetOr(board_state.tile_id_to_cell, tile_id, Undefined)
          # prev_state.tile_id_to_cell[tile_id]
     \/ MapGetOr(board_state.tile_rot, tile_id, Undefined)
          # prev_state.tile_rot[tile_id]}

\* Tiles that were in a cycle cell or a spin cell of the last call.
AffectedTiles ==
  {prev_state.cell_to_tile_id[cell] :
     cell \in Range(LastCycle) \cup Range(last_call.anchor_instance.spin_cells)}

\* C11: apply_move never changes tile_home_cell, leaves every tile outside the
\* cycle and spin cells in its cell with its rotation, and returns exactly the
\* tiles whose cell or rotation changed, each once.
C11_MoveFrame ==
  /\ board_state.tile_home_cell = SolvedState.tile_home_cell
  /\ LastCallReturned =>
       /\ board_state.tile_home_cell = prev_state.tile_home_cell
       /\ ChangedTiles \subseteq AffectedTiles
       /\ Range(last_call.moved_tile_ids) = ChangedTiles
       /\ Cardinality(Range(last_call.moved_tile_ids)) = Len(last_call.moved_tile_ids)

C11_Witness ==
  /\ LastCallReturned
  /\ last_call.anchor_instance.operator_id = "alt3_even_120"
  /\ Len(last_call.moved_tile_ids) = 4
  /\ \E tile_id \in (DOMAIN prev_state.tile_rot) \ AffectedTiles :
       /\ prev_state.tile_rot[tile_id] # 0
       /\ prev_state.tile_id_to_cell[tile_id] # tile_id

\* C17: a ring6_60 instance carries no spin cell and leaves the rotation of
\* the anchor tile unchanged; an alt3 instance carries exactly its anchor cell
\* as spin cell; a vertex3_120 instance carries no spin cell.
C17_SpinCellsPerTable ==
  /\ \A anchor_instance \in AllInstances :
       IF anchor_instance.operator_id \in {"alt3_even_120", "alt3_odd_120"}
       THEN \E key \in GridCellKeys :
              /\ anchor_instance.anchor_id \in {"cell:" \o key \o ":even",
                                                "cell:" \o key \o ":odd"}
              /\ anchor_instance.spin_cells = << key >>
       ELSE anchor_instance.spin_cells = <<>>
  /\ (LastCallReturned /\ last_call.anchor_instance.operator_id = "ring6_60") =>
       \A key \in GridCellKeys :
         last_call.anchor_instance.anchor_id = "cell:" \o key =>
           board_state.tile_rot[prev_state.cell_to_tile_id[key]]
             = prev_state.tile_rot[prev_state.cell_to_tile_id[key]]

\* C23: when at least one operator has an instance, every iteration of the
\* scramble loop applies a move: the number of moves applied so far equals
\* the number of iterations consumed, up to the full scramble length.
C23_ScrambleLength ==
  (/\ phase = "scramble"
   /\ \E operator_id \in OperatorIds :
        Len(instances_by_operator_id[operator_id]) > 0) =>
    Len(move_log) = scramble_index

\* C26: every instance built over the grid has pairwise distinct cycle cells,
\* no spin cell inside its cycle, and only cells of the grid; and in every
\* state reached from the solved state by such moves no call has raised the
\* missing-tile error and apply_move succeeds on every instance.
C26_CatalogMovesSucceed ==
  /\ \A anchor_instance \in AllInstances :
       /\ Cardinality(Range(anchor_instance.cells)) = Len(anchor_instance.cells)
       /\ Range(anchor_instance.spin_cells) \cap Range(anchor_instance.cells) = {}
       /\ Range(anchor_instance.cells) \cup Range(anchor_instance.spin_cells)
            \subseteq grid.playable_cells
  /\ last_call.error = ""
  /\ phase # "failed"
  /\ \A anchor_instance \in AllInstances :
       \A direction_sign \in DirectionSigns :
         apply_move(board_state, anchor_instance, direction_sign).error = ""

C26_Witness ==
  /\ startup.grid_w = 2
  /\ startup.grid_h = 3
  /\ Cardinality(AllInstances) = 9
  /\ Len(move_log) = MaxScramble
  /\ last_call.made
  /\ last_call.anchor_instance.operator_id = "ring6_60"
  /\ board_state # create_solved_state(grid)

(***************************************************************************)
(* Properties of a repeated move (specification SpecRepeat).               *)
(***************************************************************************)
\* C4: the same instance with the same sign applied cycle_length times
\* restores the arrangement, applied 6 / rotation_steps_cw times restores the
\* rotations; a ring6_60 instance applied six times with sign +1 and a
\* vertex3_120 instance applied three times with sign +1 restore the whole
\* board state.
C4_Periodic ==
  phase = "repeat" =>
    LET anchor_instance == last_call.anchor_instance
        cycle_length == Len(anchor_instance.cells)
    IN /\ repeat_count = cycle_length =>
            /\ board_state.cell_to_tile_id = repeat_base.cell_to_tile_id
            /\ board_state.tile_id_to_cell = repeat_base.tile_id_to_cell
       /\ repeat_count * anchor_instance.rotation_steps_cw = 6 =>
            board_state.tile_rot = repeat_base.tile_rot
       /\ ( /\ last_call.direction_sign = 1
            /\ \/ anchor_instance.operator_id = "ring6_60" /\ repeat_count = 6
               \/ anchor_instance.operator_id = "vertex3_120" /\ repeat_count = 3 )
            => board_state = repeat_base

C4_Witness ==
  /\ phase = "repeat"
  /\ last_call.anchor_instance.operator_id = "ring6_60"
  /\ last_call.direction_sign = 1
  /\ repeat_count = 6
  /\ ~is_solved(repeat_base)
  /\ prev_state # board_state

(***************************************************************************)
(* Properties of desynchronised calls (specification SpecDesync).          *)
(***************************************************************************)
LastCycleMissing ==
  {i \in 1..Len(LastCycle) : LastCycle[i] \notin DOMAIN prev_state.cell_to_tile_id}

\* C8: when a cell of the cycle has no tile, apply_move fails with the
\* missing-tile error and leaves all four maps as they were, also when the
\* missing cell is the last one of the cycle.
C8_MissingTileClean ==
  (last_call.made /\ LastCycleMissing # {}) =>
    /\ \E i \in LastCycleMissing : last_call.error = MissingTileError(LastCycle[i])
    /\ board_state = prev_state

C8_Witness ==
  /\ last_call.made
  /\ LastCycleMissing = {Len(LastCycle)}
  /\ last_call.error # ""
  /\ scramble_index = 2
  /\ phase = "failed"

\* C9: a call on an instance with a spin cell either updates all cycle slots
\* and the spin tile together, or fails with the state unchanged.
C9_AllOrNothingWithSpin ==
  (last_call.made /\ last_call.anchor_instance.spin_cells # <<>>) =>
    \/ last_call.error # "" /\ board_state = prev_state
    \/ /\ last_call.error = ""
       /\ \A k \in 1..Len(last_call.anchor_instance.spin_cells) :
            LET spin_cell_key == last_call.anchor_instance.spin_cells[k]
                spin_tile_id == MapGetOr(prev_state.cell_to_tile_id, spin_cell_key,
                                         Undefined)
            IN /\ spin_tile_id # Undefined
               /\ spin_tile_id \in Range(last_call.moved_tile_ids)
               /\ board_state.tile_rot[spin_tile_id] # prev_state.tile_rot[spin_tile_id]

(***************************************************************************)
(* Properties of free play (specification SpecPlay).                       *)
(***************************************************************************)
AllTilesHome ==
  \A key \in GridCellKeys : board_state.cell_to_tile_id[key] = key

AllRotationsZero ==
  \A key \in GridCellKeys : board_state.tile_rot[key] = 0

\* C13: is_solved is true exactly when every tile is in its home cell and
\* every rotation is 0; all tiles home with one tile turned is unsolved, and
\* so is any displacement with all rotations 0.
C13_SolvedPredicate ==
  is_solved(board_state) <=> (AllTilesHome /\ AllRotationsZero)

C13_Witness ==
  /\ phase = "play"
  /\ AllTilesHome
  /\ Cardinality({key \in GridCellKeys : board_state.tile_rot[key] # 0}) = 1
  /\ ~is_solved(board_state)

(***************************************************************************)
(* Properties of the startup (specification SpecStartup).                  *)
(***************************************************************************)
\* The cells of the alternating-row shape: rows 0..H-1, row r of length
\* W + (r mod 2).
ShapeCells(grid_w, grid_h) ==
  {cell \in [q : 0..grid_w, r : 0..(grid_h - 1)] : cell.q < grid_w + (cell.r % 2)}

RequestedCells == ShapeCells(startup.grid_w, startup.grid_h)

GridCreated == phase \in {"grid", "instances", "scramble"}

InstancesBuilt == phase \in {"instances", "scramble"}

\* C12: the state created for every accepted grid is solved: every tile id
\* equals its cell key and its home cell key, and every rotation is 0.
C12_CreatedStateSolved ==
  (phase = "scramble" /\ ~last_call.made) =>
    LET keys == {cell_key(cell) : cell \in RequestedCells}
    IN /\ is_solved(board_state)
       /\ DOMAIN board_state.cell_to_tile_id = keys
       /\ DOMAIN board_state.tile_id_to_cell = keys
       /\ DOMAIN board_state.tile_rot = keys
       /\ DOMAIN board_state.tile_home_cell = keys
       /\ \A key \in keys :
            /\ board_state.cell_to_tile_id[key] = key
            /\ board_state.tile_id_to_cell[key] = key
            /\ board_state.tile_home_cell[key] = key
            /\ board_state.tile_rot[key] = 0

C12_Witness ==
  /\ phase = "scramble"
  /\ ~last_call.made
  /\ startup.grid_w = 7
  /\ startup.grid_h = 3
  /\ Cardinality(DOMAIN board_state.tile_rot) = 22

\* C14: create_grid fails with the invalid-shape error for every even height
\* and returns no grid; for every odd height it returns the grid.
C14_EvenHeightRejected ==
  phase # "start" =>
    IF startup.grid_h % 2 = 0
    THEN /\ phase = "failed"
         /\ startup.error = InvalidGridShape
         /\ grid = NoGrid
    ELSE /\ phase # "failed"
         /\ startup.error = ""
         /\ grid.w = startup.grid_w
         /\ grid.h = startup.grid_h

C14_Witness ==
  /\ phase = "failed"
  /\ startup.grid_w = 7
  /\ startup.grid_h = 4
  /\ startup.error = InvalidGridShape

CellOperatorDirections ==
  [ring6_60 |-> << 0, 1, 2, 3, 4, 5 >>,
   alt3_even_120 |-> << 0, 2, 4 >>,
   alt3_odd_120 |-> << 1, 3, 5 >>]

CellOperatorSuffix ==
  [ring6_60 |-> "", alt3_even_120 |-> ":even", alt3_odd_120 |-> ":odd"]

CellOperatorSteps == [ring6_60 |-> 1, alt3_even_120 |-> 2, alt3_odd_120 |-> 2]

\* The anchor cells of the shape all of whose required neighbors are in it.
CompleteAnchors(operator_id) ==
  {cell \in RequestedCells :
     \A i \in 1..Len(CellOperatorDirections[operator_id]) :
       neighbor_cell(cell, CellOperatorDirections[operator_id][i]) \in RequestedCells}

\* C16: each cell-anchored operator has exactly one instance for an anchor
\* cell whose required neighbors are all grid cells and none for any other
\* cell; its cycle lists the neighbors in direction order, with length 6 and
\* step 1 for ring6 and length 3 and step 2 for the alt3 operators.
C16_EdgeFiltering ==
  InstancesBuilt =>
    \A operator_id \in DOMAIN CellOperatorDirections :
      LET instances == instances_by_operator_id[operator_id]
          directions == CellOperatorDirections[operator_id]
          AnchorId(cell) == "cell:" \o cell_key(cell) \o CellOperatorSuffix[operator_id]
          InstancesOf(cell) ==
            {i \in 1..Len(instances) : instances[i].anchor_id = AnchorId(cell)}
      IN /\ Len(instances) = Cardinality(CompleteAnchors(operator_id))
         /\ \A cell \in RequestedCells :
              IF cell \in CompleteAnchors(operator_id)
              THEN /\ Cardinality(InstancesOf(cell)) = 1
                   /\ \A i \in InstancesOf(cell) :
                        /\ instances[i].operator_id = operator_id
                        /\ instances[i].cells =
                             [k \in 1..Len(directions) |->
                                cell_key(neighbor_cell(cell, directions[k]))]
                        /\ Len(instances[i].cells)
                             = (IF operator_id = "ring6_60" THEN 6 ELSE 3)
                        /\ instances[i].rotation_steps_cw
                             = CellOperatorSteps[operator_id]
              ELSE InstancesOf(cell) = {}

C16_Witness ==
  /\ phase = "instances"
  /\ startup.grid_w = 3
  /\ startup.grid_h = 5
  /\ Len(instances_by_operator_id["ring6_60"]) = 5
  /\ Len(instances_by_operator_id["alt3_even_120"]) > 5

\* The sets of three cells of the shape whose centers are pairwise one hex
\* width apart: the vertices shared by three grid cells.
SharedVertices ==
  UNION { UNION { { {cell_a, cell_b, cell_c} :
                      cell_c \in {c \in RequestedCells :
                                    /\ CentersOneHexWidthApart(cell_a, c)
                                    /\ CentersOneHexWidthApart(cell_b, c)} } :
                  cell_b \in {b \in RequestedCells :
                                CentersOneHexWidthApart(cell_a, b)} } :
          cell_a \in RequestedCells }

\* C18: the vertex3_120 instances correspond one-to-one to the sets of three
\* pairwise adjacent grid cells: one instance per such vertex, none for any
\* other triple; for W=7, H=3 the count is the brute-force count.
C18_VertexDedupExact ==
  InstancesBuilt =>
    LET instances == instances_by_operator_id["vertex3_120"]
        KeysOf(cells) == {cell_key(cell) : cell \in cells}
    IN /\ {Range(instances[i].cells) : i \in 1..Len(instances)}
            = {KeysOf(vertex) : vertex \in SharedVertices}
       /\ Len(instances) = Cardinality(SharedVertices)
       /\ \A i \in 1..Len(instances) :
            /\ Len(instances[i].cells) = 3
            /\ Cardinality(Range(instances[i].cells)) = 3

C18_Witness ==
  /\ phase = "instances"
  /\ startup.grid_w = 7
  /\ startup.grid_h = 3
  /\ Len(instances_by_operator_id["vertex3_120"]) = 26
  /\ Cardinality(SharedVertices) = 26

\* The four instance lists, one after the other.
InstanceUnion ==
  instances_by_operator_id["ring6_60"] \o instances_by_operator_id["alt3_even_120"]
    \o instances_by_operator_id["alt3_odd_120"]
    \o instances_by_operator_id["vertex3_120"]

\* C19: no two instances of the four operators' lists share an anchor_id.
C19_AnchorIdsUnique ==
  InstancesBuilt =>
    \A i, j \in 1..Len(InstanceUnion) :
      i # j => InstanceUnion[i].anchor_id # InstanceUnion[j].anchor_id

C19_Witness ==
  /\ phase = "instances"
  /\ startup.grid_w = 3
  /\ startup.grid_h = 3
  /\ Len(InstanceUnion) = 16
  /\ \A operator_id \in OperatorIds : Len(instances_by_operator_id[operator_id]) >= 2

(***************************************************************************)
(* Properties of derive_grid_shape (specification SpecDerive).             *)
(***************************************************************************)
\* The shapes the search ranges over: odd heights 3..35, widths 1..50.
ShapeCandidates ==
  {shape \in (1..50) \X (3..35) : shape[2] % 2 = 1}

CellDeltaOf(options, shape) ==
  Abs(get_cell_count_for_shape_x2(shape[1], shape[2]) - 2 * options.target_cell_count)

AspectDeltaOf(options, shape) ==
  Abs(get_board_aspect(shape[1], shape[2], options.padding_in_tile_units)
        - options.image_aspect)

DefaultRanges ==
  /\ "candidate_h_min" \notin DOMAIN derive.options
  /\ "candidate_h_max" \notin DOMAIN derive.options

\* C20: with the default ranges, the shape derive_grid_shape returns is one of
\* the odd-height shapes of the search ranges, no shape of the ranges has a
\* smaller |cells - n|, and among the shapes with the same |cells - n| none
\* has a smaller |board_aspect - ar|; for n = 75, ar = 1.5, d = 0.5 it is
\* W = 8, H = 9 with 76 cells.
C20_LexicographicMinimum ==
  (derive.pc = "done" /\ DefaultRanges) =>
    LET options == derive.options
        returned == << derive.result.grid_w, derive.result.grid_h >>
    IN /\ returned \in ShapeCandidates
       /\ derive.result.cell_count
            = get_cell_count_for_shape_x2(returned[1], returned[2])
       /\ \A shape \in ShapeCandidates :
            /\ CellDeltaOf(options, returned) <= CellDeltaOf(options, shape)
            /\ CellDeltaOf(options, shape) = CellDeltaOf(options, returned) =>
                 AspectDeltaOf(options, returned) <= AspectDeltaOf(options, shape)
       /\ (/\ options.target_cell_count = 75
           /\ options.image_aspect = 1500000
           /\ options.padding_in_tile_units = 1) =>
            /\ returned = << 8, 9 >>
            /\ derive.result.cell_count = 2 * 76

C20_Witness ==
  /\ derive.pc = "done"
  /\ DefaultRanges
  /\ derive.options.target_cell_count = 75
  /\ derive.options.image_aspect = 1500000
  /\ derive.options.padding_in_tile_units = 1
  /\ derive.result.grid_w = 8
  /\ derive.result.grid_h = 9
  /\ Cardinality({shape \in ShapeCandidates :
                    CellDeltaOf(derive.options, shape) = 2}) >= 2

(***************************************************************************)
(* Properties of derive_grid_shape with caller-supplied height ranges      *)
(* (specification SpecDeriveOptions).                                      *)
(***************************************************************************)
\* C21: whatever candidate_h_min and candidate_h_max the caller supplies, the
\* grid_h derive_grid_shape returns is odd, and create_grid on the returned
\* shape does not fail with the invalid-grid-shape error.
C21_DerivedHeightOdd ==
  /\ derive.pc = "done" => derive.result.grid_h % 2 = 1
  /\ startup.error # InvalidGridShape

(***************************************************************************)
(* Properties of derive_tile_size (specification SpecTileSize).            *)
(***************************************************************************)
UsableWidth == MaxInt(1, derive.options.viewport_width - 2 * derive.options.viewport_margin_px)
UsableHeight == MaxInt(1, derive.options.viewport_height - 2 * derive.options.viewport_margin_px)
PaddedW == PaddedWidth(derive.options.grid_w, derive.options.padding_in_tile_units)
PaddedH == PaddedHeight(derive.options.grid_h, derive.options.padding_in_tile_units)

\* min(usable_w / padded_w, usable_h / padded_h)
TileSizeFromViewport ==
  FracMin(FracDiv(Frac(UsableWidth, 1), PaddedW), FracDiv(Frac(UsableHeight, 1), PaddedH))

\* min(image_rect_w / padded_w, image_rect_h / padded_h)
TileSizeFromImage ==
  FracMin(FracDiv(derive.result.image_rect.width, PaddedW),
          FracDiv(derive.result.image_rect.height, PaddedH))

UnclampedTileSize == FracMin(TileSizeFromViewport, TileSizeFromImage)

\* The returned image rectangle is the contain fit of the image in the usable
\* viewport: same aspect as the image, inside the viewport, one side filling it.
ContainFit ==
  LET rect == derive.result.image_rect
  IN /\ rect.width.num * rect.height.den * derive.options.image_height
          = rect.height.num * rect.width.den * derive.options.image_width
     /\ FracLeq(rect.width, Frac(UsableWidth, 1))
     /\ FracLeq(rect.height, Frac(UsableHeight, 1))
     /\ \/ FracLeq(Frac(UsableWidth, 1), rect.width)
        \/ FracLeq(Frac(UsableHeight, 1), rect.height)

\* C22: tile_size_px = max(1, min(tile_size_from_viewport, tile_size_from_image)),
\* so tile_size_px >= 1; and when the unclamped value is at least 1, the padded
\* board at that tile size is no wider and no higher than the usable viewport
\* and than the contain-fit image rectangle.
C22_TileSizeClamp ==
  derive.pc = "tile_size_done" =>
    LET tile_size_px == derive.result.tile_size_px
        one == Frac(1, 1)
    IN /\ ContainFit
       /\ FracLeq(tile_size_px, FracMax(one, UnclampedTileSize))
       /\ FracLeq(FracMax(one, UnclampedTileSize), tile_size_px)
       /\ FracLeq(one, tile_size_px)
       /\ FracLeq(one, UnclampedTileSize) =>
            /\ FracLeq(tile_size_px, FracDiv(Frac(UsableWidth, 1), PaddedW))
            /\ FracLeq(tile_size_px, FracDiv(Frac(UsableHeight, 1), PaddedH))
            /\ FracLeq(tile_size_px, FracDiv(derive.result.image_rect.width, PaddedW))
            /\ FracLeq(tile_size_px, FracDiv(derive.result.image_rect.height, PaddedH))

\* A call whose unclamped tile size is above 1 and limited by the image
\* rectangle, which is narrower than the usable viewport.
C22_Witness ==
  /\ derive.pc = "tile_size_done"
  /\ FracLess(Frac(1, 1), UnclampedTileSize)
  /\ FracLess(TileSizeFromImage, TileSizeFromViewport)
  /\ FracLeq(derive.result.tile_size_px, TileSizeFromImage)
  /\ FracLess(derive.result.image_rect.width, Frac(UsableWidth, 1))

(***************************************************************************)
(* Properties of the UI (specification SpecUi).                            *)
(***************************************************************************)
\* run_move calls that have applied their move and not yet returned.
MovesInFlight == play_moves - ui.finished

\* C24: from apply_move in run_move until the end of its animation the lock
\* is held and that move is the only one in flight; a pointerdown arriving
\* while the controller is locked requests nothing, and nothing is left to
\* run once the lock is released; while the controller is locked its hover
\* instance is null.
C24_MovesSerialized ==
  /\ ui.pc = "animating" =>
       /\ ui.interaction_locked
       /\ ui.input_locked
       /\ MovesInFlight = 1
  /\ ui.pc = "idle" =>
       /\ ~ui.interaction_locked
       /\ ~ui.input_locked
       /\ MovesInFlight = 0
  /\ (ui.last_pointerdown.made /\ ui.last_pointerdown.locked) =>
       ui.last_pointerdown.request = 0
  /\ ui.input_locked => ui.hover_instance = NoHover

\* A pointerdown on a pivot arrived while a move was animating and was dropped.
C24_Witness ==
  /\ ui.pc = "animating"
  /\ play_moves = 1
  /\ ui.last_pointer_world >= 1
  /\ find_nearest_anchor(ui, instances_by_operator_id) # NoHover
  /\ ui.hover_instance = NoHover
  /\ ui.last_pointerdown.made
  /\ ui.last_pointerdown.locked
  /\ board_state = apply_move(create_solved_state(grid), last_call.anchor_instance,
                              last_call.direction_sign).state

\* C25: a pointerdown on a hovered pivot while the controller is not locked
\* requests direction_sign +1 for button 0 (primary), -1 for button 2
\* (secondary), and nothing for any other button.
C25_MouseBinding ==
  (/\ ui.last_pointerdown.made
   /\ ui.last_pointerdown.hover # NoHover
   /\ ~ui.last_pointerdown.locked) =>
    ui.last_pointerdown.request =
      (IF ui.last_pointerdown.button = 0 THEN 1
       ELSE IF ui.last_pointerdown.button = 2 THEN -1 ELSE 0)

(***************************************************************************)
(* Properties of the layout (specification SpecStartup).                   *)
(***************************************************************************)
\* The cell of the requested shape with the given key.
CellOfKey(key) == CHOOSE cell \in RequestedCells : cell_key(cell) = key

\* The orientation sign of the centers of three cells under world_from_cell:
\* the sign of the cross product (b - a) x (d - a); it does not depend on
\* the positive scales of the two axes.
Orientation(cell_a, cell_b, cell_d) ==
  LET a == world_from_cell_units(cell_a)
      b == world_from_cell_units(cell_b)
      d == world_from_cell_units(cell_d)
      cross == (b.x - a.x) * (d.y - a.y) - (b.y - a.y) * (d.x - a.x)
  IN IF cross > 0 THEN 1 ELSE IF cross < 0 THEN -1 ELSE 0

\* The sense in which the neighbors of directions i and i + 1 follow each
\* other around a cell, as ring6_60 lists them.
RingSense(cell, direction_index) ==
  Orientation(cell, neighbor_cell(cell, direction_index),
              neighbor_cell(cell, (direction_index + 1) % 6))

\* C27: the cycle order of every vertex3_120 instance goes around its vertex
\* in one and the same sense, and this is the sense in which the neighbors
\* of directions 0, 1, ..., 5 go around every cell.
C27_VertexSenseConsistent ==
  InstancesBuilt =>
    \E sense \in {-1, 1} :
      /\ \A cell \in RequestedCells :
           \A direction_index \in 0..5 : RingSense(cell, direction_index) = sense
      /\ LET instances == instances_by_operator_id["vertex3_120"]
         IN \A i \in 1..Len(instances) :
              Orientation(CellOfKey(instances[i].cells[1]),
                          CellOfKey(instances[i].cells[2]),
                          CellOfKey(instances[i].cells[3])) = sense

\* Vertex instances first discovered from an even-row anchor and from an
\* odd-row anchor.
C27_Witness ==
  /\ phase = "instances"
  /\ startup.grid_w = 3
  /\ startup.grid_h = 3
  /\ LET instances == instances_by_operator_id["vertex3_120"]
     IN /\ Len(instances) = 10
        /\ \E i, j \in 1..Len(instances) :
             /\ CellOfKey(instances[i].cells[1]).r % 2 = 0
             /\ CellOfKey(instances[j].cells[1]).r % 2 = 1

(***************************************************************************)
(* Properties of neighbor_cell (specification SpecWalk).                   *)
(***************************************************************************)
\* Same row and q differs by 1, or adjacent row and x differs by half a hex
\* width.
LayoutNeighbors(cell_a, cell_b) ==
  LET dx == world_from_cell_units(cell_a).x - world_from_cell_units(cell_b).x
      dy == cell_a.r - cell_b.r
  IN \/ dy = 0 /\ Abs(cell_a.q - cell_b.q) = 1
     \/ Abs(dy) = 1 /\ Abs(dx) = 1

\* C28: for every cell, of even or odd and of negative row, the center of
\* each of its six neighbors is exactly one hex width from its own (same row
\* and q differs by 1, or adjacent row and x differs by half a hex width),
\* the six neighbors are pairwise distinct, and the neighbors of directions
\* i and i + 1 mod 6 are adjacent to each other.
C28_NeighborsMatchLayout ==
  LET cell == walk.cell
      neighbors == [i \in 0..5 |-> neighbor_cell(cell, i)]
  IN /\ \A i \in 0..5 :
          /\ CentersOneHexWidthApart(cell, neighbors[i])
          /\ LayoutNeighbors(cell, neighbors[i])
          /\ CentersOneHexWidthApart(neighbors[i], neighbors[(i + 1) % 6])
     /\ Cardinality({neighbors[i] : i \in 0..5}) = 6
     /\ walk.made => CentersOneHexWidthApart(walk.from, walk.cell)

\* A step from an even row into a negative odd row.
C28_Witness ==
  /\ walk.made
  /\ walk.from.r = 0
  /\ walk.cell.r = -1
  /\ walk.cell.q < 0
  /\ walk.direction_index = 2

\* C29: for every cell and every integer direction i, the neighbor in
\* direction i + 3 of the neighbor in direction i is the cell itself.
C29_NeighborSymmetric ==
  /\ walk.made =>
       neighbor_cell(walk.cell, walk.direction_index + 3) = walk.from
  /\ \A direction_index \in (0 - MaxDirection)..MaxDirection :
       neighbor_cell(neighbor_cell(walk.cell, direction_index), direction_index + 3)
         = walk.cell

\* A step in a negative direction from a negative odd row.
C29_Witness ==
  /\ walk.made
  /\ walk.from.r = -3
  /\ walk.cell.r = -2
  /\ walk.direction_index = -8

\* C33: a step taken while the success popup is visible or the preview is on
\* leaves the board state as it is and starts no move.
C33_FrozenUnderPopupAndPreview ==
  [][(ui.is_preview_mode \/ ui.popup_visible)
       => /\ board_state' = board_state
          /\ play_moves' = play_moves]_vars

\* The popup is visible, and the last pointerdown requested a move on another
\* pivot than the one of the last move: it came after that move ended with
\* the popup, and no move ran.
C33_Witness ==
  /\ ui.popup_visible
  /\ ui.pc = "idle"
  /\ play_moves = ui.finished
  /\ ui.last_pointerdown.made
  /\ ui.last_pointerdown.request # 0
  /\ ui.last_pointerdown.hover # NoHover
  /\ HoverAnchorId(ui.last_pointerdown.hover) # last_call.anchor_instance.anchor_id
  /\ ~ui.is_preview_mode
  /\ play_moves < MaxNotifyMoves

C32_SolvedNotification ==
  /\ [](ui.shown_count <= 1)
  /\ [](ui.is_explore_mode => ~ui.popup_visible /\ ui.shown_count = 0)
  /\ [][(~ui.popup_visible /\ ui'.popup_visible)
         => /\ ui.pc = "animating"
            /\ ui'.pc = "idle"
            /\ ui'.finished = ui.finished + 1
            /\ is_solved(board_state')]_vars

\* The board left the solved state after the popup was closed and came back
\* to it at the end of a later move, without a second popup.
C32_Witness ==
  /\ ~ui.is_explore_mode
  /\ ui.pc = "idle"
  /\ ui.shown_count = 1
  /\ ~ui.popup_visible
  /\ ui.finished >= 3
  /\ is_solved(board_state)
  /\ ~is_solved(prev_state)

(***************************************************************************)
(* Properties of resize events (specification SpecResize).                 *)
(***************************************************************************)
\* C34: at most one recompute callback is pending, and one is pending exactly
\* while the flag is set; no step taken while a callback is pending, a resize
\* event included, adds a callback; every resize event is followed by a
\* recompute.
C34_ResizeCoalesced ==
  /\ [](derive.pending_callbacks <= 1)
  /\ [](derive.resize_recompute_scheduled <=> derive.pending_callbacks = 1)
  /\ [][derive.pending_callbacks > 0
         => derive'.pending_callbacks <= derive.pending_callbacks]_vars
  /\ (derive.unserved ~> ~derive.unserved)

\* A recompute ran, and afterwards two resize events arrived, the second
\* while the callback of the first was pending.
C34_Witness ==
  /\ derive.recomputed
  /\ derive.unserved
  /\ derive.coalesced
  /\ derive.resize_recompute_scheduled
  /\ derive.pending_callbacks = 1

\* C35: the hover instance of the input controller is null or an element of
\* the list installed by the last set_instances call.
C35_HoverInstanceCurrent ==
  \/ ui.hover_instance = NoHover
  \/ ui.hover_instance[1] \in Range(instances_by_operator_id[ui.active_operator_id])

(***************************************************************************)
(* Properties of the grid bounds (specification SpecBounds).               *)
(***************************************************************************)
\* C36: for every grid with W >= 1 and odd H >= 1 the rectangle of
\* get_grid_bounds is sqrt(3) * (W + 1) tile sizes wide, to the millionth of
\* a pixel the halving of the hex width loses, and 1.5 * H + 0.5 tile sizes
\* high: the padded width and height with padding 0.
C36_BoundsMatchPadded ==
  derive.called =>
    /\ Abs(derive.bounds.width
             - get_padded_width_in_s(grid.w, 0) * derive.tile_size_px) <= 1
    /\ 2 * derive.bounds.height
         = Micro * get_padded_height_in_s(grid.h, 0) * derive.tile_size_px

(***************************************************************************)
(* Properties of layout changes (specification SpecLayout).                *)
(***************************************************************************)
\* C30: for every geometry the instances of each operator, without their
\* anchor_world, are the same list in the same order; the list after a
\* rebuild equals the list before it, and each instance carries the
\* anchor_world of the geometry in use.
C30_TopologyIndependentOfGeometry ==
  \A operator_id \in OperatorIds :
    LET instances == instances_by_operator_id[operator_id]
    IN /\ TopologyList(instances) = build_anchor_instances(grid, operator_id)
       /\ TopologyList(instances) = derive.previous_topology[operator_id]
       /\ \A i \in 1..Len(instances) :
            instances[i].anchor_world
              = AnchorWorld(grid, derive.geometry, Topology(instances[i]))

\* A rebuild at another tile size moved the anchors and kept the six vertex
\* instances of the 2 x 3 grid.
C30_Witness ==
  /\ derive.rebuilt
  /\ derive.previous_tile_size_px # derive.geometry.tile_size_px
  /\ startup.grid_w = 2
  /\ startup.grid_h = 3
  /\ derive.geometry.board_origin.x < 0
  /\ LET instances == instances_by_operator_id["vertex3_120"]
     IN /\ Len(instances) = 6
        /\ \A i \in 1..Len(instances) :
             instances[i].anchor_world
               # AnchorWorld(grid, [derive.geometry EXCEPT
                                      !.tile_size_px = derive.previous_tile_size_px],
                             Topology(instances[i]))

====
